---- MODULE Spec2Model ----
(***************************************************************************)
(* Rocinante (LoongArch64 bring-up kernel): boot memory map, physical      *)
(* memory manager (PMM) and software page tables.                          *)
(*                                                                         *)
(* Representation of 64-bit unsigned values (std::uintptr_t, std::size_t,  *)
(* std::uint64_t) in the PMM and boot-map part:                            *)
(*   a value v is the integer v when v < 2^63 and v - 2^64 otherwise       *)
(*   (its two's-complement reading).  Wrapping addition and subtraction    *)
(*   are then plain integer + and -, and the unsigned order is ULt.  All   *)
(*   inputs are within 2^24 of 0 or of 2^64, so every sum is exact.        *)
(* In the paging part a 64-bit word is the set of its set bit positions    *)
(* (a subset of 0..63): & is \cap, | is \cup, ~ is complement.             *)
(***************************************************************************)
EXTENDS Integers, Sequences, FiniteSets, TLC

\* ------------------------------------------------------------------------
\* Program constants
\* ------------------------------------------------------------------------
kPageSizeBytes == 4096
kBitmapAlignment == 16
kMaxBumps == 4
kMaxRegions == 64

\* ------------------------------------------------------------------------
\* Bounds of the model
\* ------------------------------------------------------------------------
\* successful AllocatePage / FreePage calls counted per PMM lifetime
MaxAllocs == 3
MaxFrees == 2

\* ------------------------------------------------------------------------
\* 64-bit unsigned helpers (two's-complement window, see header)
\* ------------------------------------------------------------------------
ULt(a, b) == IF (a >= 0) = (b >= 0) THEN a < b ELSE a >= 0
ULe(a, b) == a = b \/ ULt(a, b)
UGt(a, b) == ULt(b, a)
UGe(a, b) == ULe(b, a)

\* Quotient standing for any unsigned quotient of a value >= 2^63: larger
\* than every page count and byte count the model's regions can hold.
HugeQuotient == kPageSizeBytes * kPageSizeBytes

UDiv(a, d) == IF a >= 0 THEN a \div d ELSE HugeQuotient

AlignDown(value, alignment) == value - (value % alignment)

AlignUp(value, alignment) == AlignDown(value + (alignment - 1), alignment)

AddOverflows(a, b) == ULt(a + b, a)

RangesOverlap(a_base, a_size, b_base, b_size) ==
    IF a_size = 0 \/ b_size = 0 THEN FALSE
    ELSE IF AddOverflows(a_base, a_size) THEN TRUE
    ELSE IF AddOverflows(b_base, b_size) THEN TRUE
    ELSE ULt(a_base, b_base + b_size) /\ ULt(b_base, a_base + a_size)

\* ------------------------------------------------------------------------
\* State
\* ------------------------------------------------------------------------
VARIABLES
    m_bitmap_physical_base,
    m_bitmap_size_bytes,
    m_tracked_physical_base,
    m_tracked_physical_limit,
    m_page_count,
    m_free_page_count,
    m_next_search_index,
    m_initialized,
    bitmap,                    \* bitmap storage: the positions of its 0 (FREE) bits;
                               \* every other bit of the storage is 1 (USED)
    init_in,                   \* history: arguments of the last Initialize call
    initial_free,              \* history: FreePages() right after that call
    allocated,                 \* history: pages handed out and not freed since
    n_alloc,                   \* history: successful AllocatePage calls
    n_free,                    \* history: successful FreePage calls
    reserve_called,            \* history: ReserveRange called since Initialize
    reserved_pages,            \* history: pages ReserveRange covered, not freed since
    freed_foreign,             \* history: FreePage freed a page AllocatePage did not hand out
    last,                      \* history: the last call and what it returned
    cpucfg_address_bits,       \* the AddressSpaceBits of this run (CPUCFG, or a test's)
    root_physical_address,     \* the PageTableRoot the callers hold (0: none yet)
    memory,                    \* the pages the page-table code has written
    raw_word,                  \* the word every location it has not written holds
    n_map,                     \* history: successful MapPage4KiB calls
    last_paging,               \* history: the last paging call and what it returned
    crmd,                      \* CSR.CRMD (the DA and PG bits)
    csr,                       \* CSR.PWCL, CSR.PWCH, CSR.PGDL, CSR.PGDH
    csr_writes,                \* history: the CSRs written so far
    walker,                    \* the page-walker configuration under comparison
    kernel_pc,                 \* kernel_main: the step it is at
    kernel_locals,             \* kernel_main: its locals
    trap_csr,                  \* CSR.PRMD, ECFG, TCFG, ESTAT, ERA, BADV and the timer value
    trap_cpu,                  \* what the CPU executes: the program, the trap path, or halt
    trap_frame,                \* the TrapFrame of the trap in progress
    trap_test,                 \* the globals of the test build's trap hook
    trap_hist,                 \* history: traps raised and handled
    cpucfg,                    \* a CPUCFG object: its backend, its slots, the read count
    cpucfg_hist,               \* history: backend reads per word, the last query
    region_map,                \* a BootMemoryMap: regions[0 .. region_count)
    region_map_hist,           \* history: the last AddRegion call
    layout_call,               \* VirtualLayout: the last call and what it returned
    heap,                      \* Heap: g_heap_begin, g_heap_end, g_free_list_head,
                               \* g_initialized and the words of the heap region
    heap_hist                  \* history: the last Heap call, the live allocations

pmmVars == <<m_bitmap_physical_base, m_bitmap_size_bytes, m_tracked_physical_base,
             m_tracked_physical_limit, m_page_count, m_free_page_count,
             m_next_search_index, m_initialized, bitmap>>

histVars == <<init_in, initial_free, allocated, n_alloc, n_free, reserve_called,
              reserved_pages, freed_foreign>>

hwVars == <<crmd, csr, csr_writes>>

trapVars == <<trap_csr, trap_cpu, trap_frame, trap_test, trap_hist>>

cpucfgVars == <<cpucfg, cpucfg_hist>>

bootMapVars == <<region_map, region_map_hist>>

heapVars == <<heap, heap_hist>>

libraryVars == <<layout_call, heapVars>>

sideVars == <<trapVars, cpucfgVars, bootMapVars, libraryVars>>

bringupVars == <<walker, kernel_pc, kernel_locals, sideVars>>

pagingVars == <<cpucfg_address_bits, root_physical_address, memory, raw_word, n_map,
                last_paging, hwVars, bringupVars>>

vars == <<pmmVars, histVars, last, pagingVars>>

Usable == "UsableRAM"
Reserved == "Reserved"

Region(b, s, t) == [physical_base |-> b, size_bytes |-> s, type |-> t]

Call(op, arg, size, ok, value) ==
    [op |-> op, arg |-> arg, size |-> size, ok |-> ok, value |-> value]


\* ------------------------------------------------------------------------
\* BootMemoryMap::AddRegion / Clear
\* ------------------------------------------------------------------------
\* The merge loop from entry i on, then the append: the loop stops at the
\* first entry of the region's type that ends where the region begins or
\* begins where the region ends.
AddRegionMerges(existing, region) ==
    /\ existing.type = region.type
    /\ ~ULt(existing.physical_base + existing.size_bytes, existing.physical_base)
    /\ \/ existing.physical_base + existing.size_bytes = region.physical_base
       \/ region.physical_base + region.size_bytes = existing.physical_base

AddRegionMerged(existing, region) ==
    IF existing.physical_base + existing.size_bytes = region.physical_base
    THEN [existing EXCEPT !.size_bytes = (region.physical_base + region.size_bytes)
                                             - existing.physical_base]
    ELSE [existing EXCEPT !.physical_base = region.physical_base,
                          !.size_bytes = (existing.physical_base + existing.size_bytes)
                                             - region.physical_base]

AddRegionScan(map, region, i) ==
    LET hits == { k \in i .. Len(map) : AddRegionMerges(map[k], region) }
    IN  IF hits # {}
        THEN [ok |-> TRUE,
              map |-> [map EXCEPT ![CHOOSE k \in hits : \A h \in hits : k <= h] =
                                       AddRegionMerged(@, region)]]
        ELSE IF Len(map) >= kMaxRegions
        THEN [ok |-> FALSE, map |-> map]
        ELSE [ok |-> TRUE, map |-> Append(map, region)]

\* Fault model: the region is not validated before it is stored.
AddRegionResultUnchecked(map, region) == AddRegionScan(map, region, 1)

AddRegionResult(map, region) ==
    IF region.size_bytes = 0 THEN [ok |-> FALSE, map |-> map]
    ELSE IF ULt(region.physical_base + region.size_bytes, region.physical_base)
    THEN [ok |-> FALSE, map |-> map]
    ELSE AddRegionScan(map, region, 1)

\* ------------------------------------------------------------------------
\* PhysicalMemoryManager: pure parts of InitializeFromBootMemoryMap
\* ------------------------------------------------------------------------
IsUsableCandidate(r) ==
    /\ r.type = Usable
    /\ r.size_bytes # 0
    /\ ~AddOverflows(r.physical_base, r.size_bytes)

\* The loop that determines the physical span of UsableRAM.
RECURSIVE UsableSpan(_, _, _)
UsableSpan(map, i, acc) ==
    IF i > Len(map) THEN acc
    ELSE LET r == map[i]
             begin == r.physical_base
             end == r.physical_base + r.size_bytes
         IN  IF ~IsUsableCandidate(r) THEN UsableSpan(map, i + 1, acc)
             ELSE IF ~acc.saw_usable
             THEN UsableSpan(map, i + 1,
                      [saw_usable |-> TRUE, usable_min |-> begin, usable_max |-> end])
             ELSE UsableSpan(map, i + 1,
                      [saw_usable |-> TRUE,
                       usable_min |-> IF ULt(begin, acc.usable_min) THEN begin ELSE acc.usable_min,
                       usable_max |-> IF UGt(end, acc.usable_max) THEN end ELSE acc.usable_max])

\* Fault model: the byte count is not rounded up.
BitmapByteCountUnaligned(page_count) == (page_count + 7) \div 8

BitmapByteCountAligned(page_count) ==
    LET byte_count == (page_count + 7) \div 8
    IN  AlignDown(byte_count + 15, kBitmapAlignment)

\* The inner "bump" loop of _allocate_bitmap for one UsableRAM region:
\* the chosen base, or 0 when the region yields none.
RECURSIVE BumpSearch(_, _, _, _, _, _, _, _, _)
BumpSearch(candidate, bump, region_begin, region_end, size, kb, ke, db, ds) ==
    IF bump >= kMaxBumps THEN 0
    ELSE IF ULt(candidate, region_begin) THEN 0
    ELSE IF AddOverflows(candidate, size) THEN 0
    ELSE IF UGt(candidate + size, region_end) THEN 0
    ELSE IF UGt(ke, kb) /\ RangesOverlap(candidate, size, kb, ke - kb)
    THEN BumpSearch(AlignUp(ke, kBitmapAlignment), bump + 1,
                    region_begin, region_end, size, kb, ke, db, ds)
    ELSE IF db # 0 /\ ds # 0 /\ RangesOverlap(candidate, size, db, ds)
    THEN IF AddOverflows(db, ds) THEN 0
         ELSE BumpSearch(AlignUp(db + ds, kBitmapAlignment), bump + 1,
                         region_begin, region_end, size, kb, ke, db, ds)
    ELSE candidate

\* The outer loop of _allocate_bitmap: first region with a non-zero choice.
RECURSIVE ChooseBitmapBase(_, _, _, _, _, _, _)
ChooseBitmapBase(map, i, size, kb, ke, db, ds) ==
    IF i > Len(map) THEN 0
    ELSE LET r == map[i]
             region_begin == r.physical_base
             region_end == r.physical_base + r.size_bytes
             candidate == AlignUp(region_begin, kBitmapAlignment)
             chosen == IF ULt(candidate, region_begin) THEN 0
                       ELSE BumpSearch(candidate, 0, region_begin, region_end,
                                       size, kb, ke, db, ds)
         IN  IF ~IsUsableCandidate(r) THEN ChooseBitmapBase(map, i + 1, size, kb, ke, db, ds)
             ELSE IF chosen # 0 THEN chosen
             ELSE ChooseBitmapBase(map, i + 1, size, kb, ke, db, ds)

PageIndexToPhysical(tracked_base, page_index) ==
    tracked_base + (page_index * kPageSizeBytes)

PhysicalToPageIndex(tracked_base, physical_address) ==
    UDiv(physical_address - tracked_base, kPageSizeBytes)

\* Fault model: the range is rounded inward, to the pages it covers entirely.
PhysicalRangeToPageIndicesInward(tb, tl, pc, physical_base, size_bytes) ==
    LET none == [ok |-> FALSE, begin |-> 0, end |-> 0]
        physical_end == physical_base + size_bytes
        clamped_begin == IF ULt(physical_base, tb) THEN tb ELSE physical_base
        clamped_end == IF UGt(physical_end, tl) THEN tl ELSE physical_end
        aligned_begin == AlignUp(clamped_begin, kPageSizeBytes)
        aligned_end == AlignDown(clamped_end, kPageSizeBytes)
        index_begin == PhysicalToPageIndex(tb, aligned_begin)
        index_end == PhysicalToPageIndex(tb, aligned_end)
    IN  IF size_bytes = 0 THEN none
        ELSE IF AddOverflows(physical_base, size_bytes) THEN none
        ELSE IF ULe(physical_end, tb) THEN none
        ELSE IF UGe(physical_base, tl) THEN none
        ELSE IF ULe(clamped_end, clamped_begin) THEN none
        ELSE IF ULe(aligned_end, aligned_begin) THEN none
        ELSE IF index_begin >= index_end THEN none
        ELSE IF index_end > pc THEN none
        ELSE [ok |-> TRUE, begin |-> index_begin, end |-> index_end]

\* _physical_range_to_page_indices: [ok, begin, end]
PhysicalRangeToPageIndices(tb, tl, pc, physical_base, size_bytes) ==
    LET none == [ok |-> FALSE, begin |-> 0, end |-> 0]
        physical_end == physical_base + size_bytes
        clamped_begin == IF ULt(physical_base, tb) THEN tb ELSE physical_base
        clamped_end == IF UGt(physical_end, tl) THEN tl ELSE physical_end
        aligned_begin == AlignDown(clamped_begin, kPageSizeBytes)
        aligned_end == AlignUp(clamped_end, kPageSizeBytes)
        index_begin == PhysicalToPageIndex(tb, aligned_begin)
        index_end == PhysicalToPageIndex(tb, aligned_end)
    IN  IF size_bytes = 0 THEN none
        ELSE IF AddOverflows(physical_base, size_bytes) THEN none
        ELSE IF ULe(physical_end, tb) THEN none
        ELSE IF UGe(physical_base, tl) THEN none
        ELSE IF ULe(clamped_end, clamped_begin) THEN none
        ELSE IF ULe(aligned_end, aligned_begin) THEN none
        ELSE IF index_begin >= index_end THEN none
        ELSE IF index_end > pc THEN none
        ELSE [ok |-> TRUE, begin |-> index_begin, end |-> index_end]

\* _mark_range_free / _mark_range_used: the bits of the range set to value (0 / 1).
MarkRange(bm, tb, tl, pc, physical_base, size_bytes, value) ==
    LET r == PhysicalRangeToPageIndices(tb, tl, pc, physical_base, size_bytes)
    IN  IF ~r.ok THEN bm
        ELSE IF value = 0 THEN bm \cup (r.begin .. (r.end - 1))
        ELSE bm \ (r.begin .. (r.end - 1))

\* Steps 1 and 2 of the initialization: one pass over the regions of `type`.
RECURSIVE MarkRegions(_, _, _, _, _, _, _, _)
MarkRegions(bm, map, i, type, value, tb, tl, pc) ==
    IF i > Len(map) THEN bm
    ELSE IF map[i].type # type THEN MarkRegions(bm, map, i + 1, type, value, tb, tl, pc)
    ELSE MarkRegions(
             MarkRange(bm, tb, tl, pc, map[i].physical_base, map[i].size_bytes, value),
             map, i + 1, type, value, tb, tl, pc)

RECURSIVE CountFree(_, _)
CountFree(bm, n) ==
    IF n = 0 THEN 0 ELSE CountFree(bm, n - 1) + (IF (n - 1) \in bm THEN 1 ELSE 0)

ResetState ==
    [ok |-> FALSE, bitmap_base |-> 0, bitmap_size |-> 0, tracked_base |-> 0,
     tracked_limit |-> 0, page_count |-> 0, free |-> 0, bits |-> {}]

\* The PMM state InitializeFromBootMemoryMap leaves, with its return value.
InitializeResult(map, kb, ke, db, ds) ==
    LET span == UsableSpan(map, 1, [saw_usable |-> FALSE, usable_min |-> 0, usable_max |-> 0])
        tb == AlignDown(span.usable_min, kPageSizeBytes)
        tl == AlignUp(span.usable_max, kPageSizeBytes)
        pc == UDiv(tl - tb, kPageSizeBytes)
        size == BitmapByteCountAligned(pc)
        chosen == ChooseBitmapBase(map, 1, size, kb, ke, db, ds)
        bm0 == {}
        bm1 == MarkRegions(bm0, map, 1, Usable, 0, tb, tl, pc)
        bm2 == MarkRegions(bm1, map, 1, Reserved, 1, tb, tl, pc)
        bm3 == IF UGt(ke, kb) THEN MarkRange(bm2, tb, tl, pc, kb, ke - kb, 1) ELSE bm2
        bm4 == IF db # 0 /\ ds # 0 THEN MarkRange(bm3, tb, tl, pc, db, ds, 1) ELSE bm3
        bm5 == MarkRange(bm4, tb, tl, pc, chosen, size, 1)
        bm6 == MarkRange(bm5, tb, tl, pc, 0, kPageSizeBytes, 1)
    IN  IF ~span.saw_usable THEN ResetState
        ELSE IF ULe(tl, tb)
        THEN [ResetState EXCEPT !.tracked_base = tb, !.tracked_limit = tl]
        ELSE IF pc = 0
        THEN [ResetState EXCEPT !.tracked_base = tb, !.tracked_limit = tl]
        ELSE IF chosen = 0 THEN ResetState
        ELSE [ok |-> TRUE, bitmap_base |-> chosen, bitmap_size |-> size,
              tracked_base |-> tb, tracked_limit |-> tl, page_count |-> pc,
              free |-> CountFree(bm6, pc), bits |-> bm6]


\* ------------------------------------------------------------------------
\* PhysicalMemoryManager: bitmap accessors and the allocation scan
\* ------------------------------------------------------------------------
BitmapPtrIsNull == m_bitmap_physical_base = 0 \/ m_bitmap_size_bytes = 0

IsPageUsed(bm, page_index) ==
    IF BitmapPtrIsNull THEN TRUE ELSE page_index \notin bm

\* Fault model: the write of the USED bit is lost.
SetPageUsedLost(bm, page_index) == bm

SetPageUsed(bm, page_index) ==
    IF BitmapPtrIsNull THEN bm ELSE bm \ {page_index}

\* Fault model: the write of the FREE bit is lost.
SetPageFreeLost(bm, page_index) == bm

SetPageFree(bm, page_index) ==
    IF BitmapPtrIsNull THEN bm ELSE bm \cup {page_index}

\* The scan loop of AllocatePage: the index it stops at, or -1.
RECURSIVE AllocateScan(_, _, _)
AllocateScan(bm, next_search_index, scan) ==
    IF scan >= m_page_count THEN -1
    ELSE LET index == (next_search_index + scan) % m_page_count
         IN  IF IsPageUsed(bm, index) THEN AllocateScan(bm, next_search_index, scan + 1)
             ELSE index

\* Fault model: the loop of ReserveRange stops one page early.
ReserveLoopStoppingEarly(bm, free, i, index_end) ==
    [bits |-> bm \ (i .. (index_end - 2)),
     free |-> free - Cardinality(bm \cap (i .. (index_end - 2)))]

\* The loop of ReserveRange over [i, index_end): [bits, free]
RECURSIVE ReserveLoop(_, _, _, _)
ReserveLoop(bm, free, i, index_end) ==
    IF i >= index_end THEN [bits |-> bm, free |-> free]
    ELSE IF IsPageUsed(bm, i) THEN ReserveLoop(bm, free, i + 1, index_end)
    ELSE ReserveLoop(SetPageUsed(bm, i), free - 1, i + 1, index_end)

\* ------------------------------------------------------------------------
\* Inputs
\* ------------------------------------------------------------------------
RamBase == 256 * kPageSizeBytes

Page(k) == RamBase + k * kPageSizeBytes

TopPage(k) == 0 - k * kPageSizeBytes

U1 == Region(Page(0), 2 * kPageSizeBytes, Usable)
U2 == Region(Page(2), kPageSizeBytes + 2048, Usable)
U3 == Region(Page(4), kPageSizeBytes, Usable)
Rsv1 == Region(Page(1) + 2048, kPageSizeBytes, Reserved)
Rsv2 == Region(Page(0), 16, Reserved)
LowRam == Region(0, 2 * kPageSizeBytes, Usable)
Tiny == Region(Page(0) + 8, 8, Usable)
TopRam == Region(TopPage(4), 2 * kPageSizeBytes, Usable)
TopEnd == Region(TopPage(2), 2 * kPageSizeBytes - 1, Usable)
Wrapping == Region(TopPage(1), kPageSizeBytes, Usable)
Empty == Region(Page(2), 0, Reserved)
TestRam == Region(Page(0), 16 * kPageSizeBytes, Usable)
TestReserved == Region(Page(8), 2 * kPageSizeBytes, Reserved)

\* A map as the caller builds it: Clear(), then AddRegion for each region.
RECURSIVE BuildMap(_, _, _)
BuildMap(map, script, i) ==
    IF i > Len(script) THEN map
    ELSE BuildMap(AddRegionResult(map, script[i]).map, script, i + 1)

InitArg(kb, ke, db, ds) ==
    [kernel_physical_base |-> kb, kernel_physical_end |-> ke,
     device_tree_physical_base |-> db, device_tree_size_bytes |-> ds]

NoKernelNoDtb == InitArg(0, 0, 0, 0)
KernelFirstPage == InitArg(Page(0), Page(1), 8, 16)
KernelEverywhere == InitArg(Page(0), Page(6), 0, 0)
DtbStraddling == InitArg(0, 0, Page(2) + 2048, kPageSizeBytes)
TestKernelAndDtb == InitArg(Page(0), Page(4), Page(12), kPageSizeBytes)
DtbFirstBytes == InitArg(0, 0, Page(0), 24)

\* The Initialize calls of the model: <<regions added in order, arguments>>.
InitInputs ==
    { <<<<>>, NoKernelNoDtb>>,
      <<<<U1>>, NoKernelNoDtb>>,
      <<<<U1>>, KernelFirstPage>>,
      <<<<U1>>, KernelEverywhere>>,
      <<<<U1, U2>>, NoKernelNoDtb>>,
      <<<<U1, U2>>, DtbStraddling>>,
      <<<<U1, U2>>, DtbFirstBytes>>,
      <<<<U3, Empty, U1>>, NoKernelNoDtb>>,
      <<<<U3, Empty, U1>>, KernelFirstPage>>,
      <<<<U1, Rsv1>>, NoKernelNoDtb>>,
      <<<<Rsv2, U1, U2>>, NoKernelNoDtb>>,
      <<<<LowRam>>, NoKernelNoDtb>>,
      <<<<LowRam>>, KernelFirstPage>>,
      <<<<Tiny>>, NoKernelNoDtb>>,
      <<<<TopRam, Wrapping>>, NoKernelNoDtb>>,
      <<<<TopEnd>>, NoKernelNoDtb>>,
      <<<<U1, TopRam>>, NoKernelNoDtb>>,
      <<<<Rsv1>>, NoKernelNoDtb>>,
      <<<<TestRam, TestReserved>>, TestKernelAndDtb>> }

FreeInputs ==
    { Page(0), Page(1), Page(2), kPageSizeBytes, Page(0) + 2048, Page(7), TopPage(4) }

ReserveInputs ==
    { <<Page(1), kPageSizeBytes>>,
      <<Page(1) + 2048, kPageSizeBytes>>,
      <<Page(2), 0>>,
      <<Page(2) + 8, 0>>,
      <<Page(0), 0 - 1>>,
      <<Page(3), 3 * kPageSizeBytes>>,
      <<0, Page(1)>>,
      <<TopPage(3), 1>> }

NoPagingCall == [op |-> "none", ok |-> FALSE]

\* CSR.CRMD bits (CurrentModeInformation).
kPagingEnable == {4}
kDirectAddressingEnable == {3}

\* The machine as the boot environment hands it over: direct-address mode, the
\* page-walk CSRs not written yet; kernel_main not running.
HwAtBoot ==
    /\ crmd = kDirectAddressingEnable
    /\ csr = [pwcl |-> {}, pwch |-> {}, pgdl |-> {}, pgdh |-> {}]
    /\ csr_writes = {}

NoWalkerCall == [op |-> "none"]

\* The trap machine after Trap::Initialize: every interrupt line masked, no
\* timer programmed, nothing pending, the program running.
TrapCsrAtBoot ==
    [prmd_pie |-> FALSE, ecfg |-> {}, tcfg |-> {}, timer_running |-> FALSE,
     timer_value |-> 0, estat |-> {}, era |-> {}, badv |-> {}]

NoTrapFrame ==
    [exception_return_address |-> {}, exception_status |-> {},
     bad_virtual_address |-> {}, current_mode_information |-> {},
     previous_mode_information |-> {}, exception_configuration |-> {}]

TrapCpuAtBoot == [mode |-> "program", pc |-> {}, event |-> "none"]

\* The globals of testing/test.cpp as their initializers leave them; build
\* says whether ROCINANTE_TESTS is defined.
TrapTestAtBoot(build) ==
    [build |-> build,
     g_break_trap_count |-> {},           \* a std::uint32_t
     g_timer_interrupt_observed |-> FALSE,
     g_expected_trap_armed |-> FALSE,
     g_expected_trap_observed |-> FALSE,
     g_expected_exception_code |-> {},
     g_expected_exception_subcode |-> {},
     g_observed_exception_code |-> {},
     g_observed_exception_subcode |-> {},
     g_observed_era |-> {},
     g_observed_badv |-> {}]

TrapHistAtBoot ==
    [depth |-> 0, traps |-> 0, breaks_since_reset |-> 0, timer_started |-> FALSE,
     timer_starts |-> 0, timer_traps |-> 0, returned |-> 0]

TrapIdle(build) ==
    /\ trap_csr = TrapCsrAtBoot
    /\ trap_cpu = TrapCpuAtBoot
    /\ trap_frame = NoTrapFrame
    /\ trap_test = TrapTestAtBoot(build)
    /\ trap_hist = TrapHistAtBoot

\* The words no test has set: what FakeCPUCFGBackend::Read returns for them.
CpucfgBackendAtBoot == [word_number \in 0 .. 21 |-> {}]

\* A CPUCFG object after construction: every slot empty.
CpucfgAtConstruction(backend) ==
    [backend |-> backend,
     slots |-> [word_number \in (0 .. 6) \cup (16 .. 20) |-> <<>>],
     backend_read_count |-> 0]

NoCpucfgQuery == [op |-> "none", word_number |-> 0, value |-> 0]

CpucfgHistAtConstruction ==
    [reads |-> [word_number \in 0 .. 21 |-> 0], last |-> NoCpucfgQuery]

CpucfgIdle ==
    /\ cpucfg = CpucfgAtConstruction(CpucfgBackendAtBoot)
    /\ cpucfg_hist = CpucfgHistAtConstruction

NoAddRegionCall ==
    [calls |-> 0, op |-> "none", ok |-> TRUE, region |-> Region(0, 0, Usable), before |-> <<>>]

BootMapIdle ==
    /\ region_map = <<>>
    /\ region_map_hist = NoAddRegionCall

NoLayoutCall == [op |-> "none"]

\* The heap before Init: the globals of heap.cpp as the image holds them.
HeapAtBoot ==
    [g_heap_begin |-> 0, g_heap_end |-> 0, g_free_list_head |-> 0, g_initialized |-> FALSE,
     mem |-> <<>>, bytes |-> <<>>, fill |-> 0, origin |-> {}, wild |-> FALSE]

NoHeapCall ==
    [op |-> "none", calls |-> 0, live |-> {}, size |-> 0, alignment |-> 0, ptr |-> 0]

LibraryIdle ==
    /\ layout_call = NoLayoutCall
    /\ heap = HeapAtBoot
    /\ heap_hist = NoHeapCall

SideIdle ==
    /\ TrapIdle("kernel")
    /\ CpucfgIdle
    /\ BootMapIdle
    /\ LibraryIdle

KernelIdle ==
    /\ walker = NoWalkerCall
    /\ kernel_pc = "idle"
    /\ kernel_locals = <<>>

BringupIdle ==
    /\ KernelIdle
    /\ SideIdle

NoInit == [map |-> <<>>, kernel_physical_base |-> 0, kernel_physical_end |-> 0,
           device_tree_physical_base |-> 0, device_tree_size_bytes |-> 0]

\* ------------------------------------------------------------------------
\* Initial state: a default-constructed PMM
\* ------------------------------------------------------------------------
PmmAndPagingIdle ==
    /\ m_bitmap_physical_base = 0
    /\ m_bitmap_size_bytes = 0
    /\ m_tracked_physical_base = 0
    /\ m_tracked_physical_limit = 0
    /\ m_page_count = 0
    /\ m_free_page_count = 0
    /\ m_next_search_index = 0
    /\ m_initialized = FALSE
    /\ bitmap = {}
    /\ init_in = NoInit
    /\ initial_free = 0
    /\ allocated = {}
    /\ n_alloc = 0
    /\ n_free = 0
    /\ reserve_called = FALSE
    /\ reserved_pages = {}
    /\ freed_foreign = FALSE
    /\ last = Call("none", 0, 0, FALSE, 0)
    /\ cpucfg_address_bits = [virtual_address_bits |-> 48, physical_address_bits |-> 48]
    /\ root_physical_address = {}
    /\ memory = <<>>
    /\ raw_word = {}
    /\ n_map = 0
    /\ last_paging = NoPagingCall

PmmAndPagingAtBoot ==
    /\ PmmAndPagingIdle
    /\ HwAtBoot

Init ==
    /\ PmmAndPagingAtBoot
    /\ BringupIdle

\* ------------------------------------------------------------------------
\* Operations
\* ------------------------------------------------------------------------
\* The calls of InitializeFromBootMemoryMap the model makes, each with the
\* state it leaves: [map, arg, r].
InitializeCall(map, a) ==
    [map |-> map, arg |-> a,
     r |-> InitializeResult(map, a.kernel_physical_base, a.kernel_physical_end,
                            a.device_tree_physical_base, a.device_tree_size_bytes)]

InitializeCalls == { InitializeCall(BuildMap(<<>>, x[1], 1), x[2]) : x \in InitInputs }

\* The PMM as the call leaves it.
InitializePmmState(call) ==
    LET r == call.r
        boot_map == call.map
        a == call.arg
    IN  /\ m_bitmap_physical_base' = r.bitmap_base
        /\ m_bitmap_size_bytes' = r.bitmap_size
        /\ m_tracked_physical_base' = r.tracked_base
        /\ m_tracked_physical_limit' = r.tracked_limit
        /\ m_page_count' = r.page_count
        /\ m_free_page_count' = r.free
        /\ m_next_search_index' = 0
        /\ m_initialized' = r.ok
        /\ bitmap' = r.bits
        /\ init_in' = [map |-> boot_map,
                       kernel_physical_base |-> a.kernel_physical_base,
                       kernel_physical_end |-> a.kernel_physical_end,
                       device_tree_physical_base |-> a.device_tree_physical_base,
                       device_tree_size_bytes |-> a.device_tree_size_bytes]
        /\ initial_free' = r.free
        /\ allocated' = {}
        /\ n_alloc' = 0
        /\ n_free' = 0
        /\ reserve_called' = FALSE
        /\ reserved_pages' = {}
        /\ freed_foreign' = FALSE
        /\ last' = Call("Initialize", 0, 0, r.ok, 0)

InitializeFromBootMemoryMap(call) ==
    /\ InitializePmmState(call)
    /\ UNCHANGED pagingVars

\* Fault model: the page is handed out but neither marked USED nor stepped
\* over by the search index.
AllocatePageResultNotMarking(pmm) ==
    LET index == IF ~m_initialized THEN -1
                 ELSE IF pmm.free = 0 THEN -1
                 ELSE AllocateScan(pmm.bits, pmm.next, 0)
    IN  IF index = -1 THEN [ok |-> FALSE, value |-> 0, pmm |-> pmm]
        ELSE [ok |-> TRUE,
              value |-> PageIndexToPhysical(m_tracked_physical_base, index),
              pmm |-> [pmm EXCEPT !.free = pmm.free - 1]]

\* Fault model: the page is handed out without the free count going down.
AllocatePageResultKeepingCount(pmm) ==
    LET index == IF ~m_initialized THEN -1
                 ELSE IF pmm.free = 0 THEN -1
                 ELSE AllocateScan(pmm.bits, pmm.next, 0)
    IN  IF index = -1 THEN [ok |-> FALSE, value |-> 0, pmm |-> pmm]
        ELSE [ok |-> TRUE,
              value |-> PageIndexToPhysical(m_tracked_physical_base, index),
              pmm |-> [bits |-> SetPageUsed(pmm.bits, index),
                       free |-> pmm.free,
                       next |-> (index + 1) % m_page_count]]

\* Fault model: the search index stays where it was.
AllocatePageResultNotAdvancing(pmm) ==
    LET index == IF ~m_initialized THEN -1
                 ELSE IF pmm.free = 0 THEN -1
                 ELSE AllocateScan(pmm.bits, pmm.next, 0)
    IN  IF index = -1 THEN [ok |-> FALSE, value |-> 0, pmm |-> pmm]
        ELSE [ok |-> TRUE,
              value |-> PageIndexToPhysical(m_tracked_physical_base, index),
              pmm |-> [bits |-> SetPageUsed(pmm.bits, index),
                       free |-> pmm.free - 1,
                       next |-> pmm.next]]

\* PhysicalMemoryManager::AllocatePage on the PMM state [bits, free, next].
AllocatePageResult(pmm) ==
    LET index == IF ~m_initialized THEN -1
                 ELSE IF pmm.free = 0 THEN -1
                 ELSE AllocateScan(pmm.bits, pmm.next, 0)
    IN  IF index = -1 THEN [ok |-> FALSE, value |-> 0, pmm |-> pmm]
        ELSE [ok |-> TRUE,
              value |-> PageIndexToPhysical(m_tracked_physical_base, index),
              pmm |-> [bits |-> SetPageUsed(pmm.bits, index),
                       free |-> pmm.free - 1,
                       next |-> (index + 1) % m_page_count]]

PmmNow == [bits |-> bitmap, free |-> m_free_page_count, next |-> m_next_search_index]

AllocatePage ==
    LET page == AllocatePageResult(PmmNow)
    IN  IF ~page.ok
        THEN /\ last' = Call("AllocatePage", 0, 0, FALSE, 0)
             /\ UNCHANGED <<pmmVars, histVars, pagingVars>>
        ELSE /\ n_alloc < MaxAllocs
             /\ bitmap' = page.pmm.bits
             /\ m_free_page_count' = page.pmm.free
             /\ m_next_search_index' = page.pmm.next
             /\ allocated' = allocated \cup {page.value}
             /\ n_alloc' = n_alloc + 1
             /\ last' = Call("AllocatePage", 0, 0, TRUE, page.value)
             /\ UNCHANGED <<m_bitmap_physical_base, m_bitmap_size_bytes,
                            m_tracked_physical_base, m_tracked_physical_limit,
                            m_page_count, m_initialized, init_in, initial_free,
                            n_free, reserve_called, reserved_pages, freed_foreign,
                            pagingVars>>

\* What FreePage(physical_address) returns in the current state.
FreePageAccepts(physical_address) ==
    /\ m_initialized
    /\ physical_address % kPageSizeBytes = 0
    /\ ~ULt(physical_address, m_tracked_physical_base)
    /\ ~UGe(physical_address, m_tracked_physical_limit)
    /\ PhysicalToPageIndex(m_tracked_physical_base, physical_address) < m_page_count
    /\ IsPageUsed(bitmap, PhysicalToPageIndex(m_tracked_physical_base, physical_address))

FreePage(physical_address) ==
    LET index == PhysicalToPageIndex(m_tracked_physical_base, physical_address)
    IN  IF ~FreePageAccepts(physical_address)
        THEN /\ last' = Call("FreePage", physical_address, 0, FALSE, 0)
             /\ UNCHANGED <<pmmVars, histVars, pagingVars>>
        ELSE /\ n_free < MaxFrees
             /\ bitmap' = SetPageFree(bitmap, index)
             /\ m_free_page_count' = m_free_page_count + 1
             /\ m_next_search_index' =
                    IF index < m_next_search_index THEN index ELSE m_next_search_index
             /\ allocated' = allocated \ {physical_address}
             /\ reserved_pages' = reserved_pages \ {physical_address}
             /\ freed_foreign' = (freed_foreign \/ physical_address \notin allocated)
             /\ n_free' = n_free + 1
             /\ last' = Call("FreePage", physical_address, 0, TRUE, 0)
             /\ UNCHANGED <<m_bitmap_physical_base, m_bitmap_size_bytes,
                            m_tracked_physical_base, m_tracked_physical_limit,
                            m_page_count, m_initialized, init_in, initial_free,
                            n_alloc, reserve_called, pagingVars>>

\* The bitmap and free count ReserveRange leaves on an initialized PMM.
ReserveRangeResult(bm, free, physical_base, size_bytes) ==
    LET r == PhysicalRangeToPageIndices(m_tracked_physical_base, m_tracked_physical_limit,
                                        m_page_count, physical_base, size_bytes)
    IN  IF r.ok THEN ReserveLoop(bm, free, r.begin, r.end)
        ELSE [bits |-> bm, free |-> free]

ReserveRange(physical_base, size_bytes) ==
    LET r == PhysicalRangeToPageIndices(m_tracked_physical_base, m_tracked_physical_limit,
                                        m_page_count, physical_base, size_bytes)
        done == ReserveRangeResult(bitmap, m_free_page_count, physical_base, size_bytes)
    IN  IF ~m_initialized
        THEN /\ last' = Call("ReserveRange", physical_base, size_bytes, FALSE, 0)
             /\ UNCHANGED <<pmmVars, histVars, pagingVars>>
        ELSE /\ bitmap' = done.bits
             /\ m_free_page_count' = done.free
             /\ reserve_called' = TRUE
             /\ reserved_pages' =
                    IF r.ok
                    THEN reserved_pages \cup
                         { PageIndexToPhysical(m_tracked_physical_base, i) :
                               i \in r.begin .. (r.end - 1) }
                    ELSE reserved_pages
             /\ last' = Call("ReserveRange", physical_base, size_bytes, TRUE, 0)
             /\ UNCHANGED <<m_bitmap_physical_base, m_bitmap_size_bytes,
                            m_tracked_physical_base, m_tracked_physical_limit,
                            m_page_count, m_next_search_index, m_initialized,
                            init_in, initial_free, allocated, n_alloc, n_free,
                            freed_foreign, pagingVars>>

Next ==
    \/ \E call \in InitializeCalls : InitializeFromBootMemoryMap(call)
    \/ AllocatePage
    \/ \E pa \in FreeInputs \cup allocated : FreePage(pa)
    \/ \E rr \in ReserveInputs : ReserveRange(rr[1], rr[2])

Spec == Init /\ [][Next]_vars

\* ========================================================================
\* Paging (software page-table builder and walker)
\*
\* A 64-bit word (an address, a table entry, a mask) is the set of the
\* positions of its 1 bits: & is \cap, | is \cup, ~ is the complement in
\* AllBits, and the sum of a page base and a page offset is their union.
\* ========================================================================
AllBits == 0 .. 63

kPageShiftBits == 12
kIndexBitsPerLevel == 9
kMaxSupportedLevelCount == 6

kPageOffsetMask == 0 .. (kPageShiftBits - 1)
kPageBaseMask == AllBits \ kPageOffsetMask

kValid == {0}
kDirty == {1}
kPrivilegeLevelMask == {2, 3}
kCacheShift == 4
kCacheMask == {4, 5}
kGlobal == {6}
kPresent == {7}
kWrite == {8}
kModified == {9}
kNoRead == {61}
kNoExecute == {62}

BitIndexFromSingleBitMask(mask) == CHOOSE index \in mask : \A b \in mask : index <= b

kLowestHighFlagBit ==
    IF BitIndexFromSingleBitMask(kNoRead) < BitIndexFromSingleBitMask(kNoExecute)
    THEN BitIndexFromSingleBitMask(kNoRead)
    ELSE BitIndexFromSingleBitMask(kNoExecute)

kMaxEncodablePhysicalAddressBits == kLowestHighFlagBit

\* The word a std::uintptr_t of the PMM is.
RECURSIVE BitsOfNat(_, _)
BitsOfNat(n, b) ==
    IF n = 0 THEN {}
    ELSE (IF n % 2 = 1 THEN {b} ELSE {}) \cup BitsOfNat(n \div 2, b + 1)

ToBits(n) == IF n >= 0 THEN BitsOfNat(n, 0) ELSE AllBits \ BitsOfNat((0 - n) - 1, 0)

ShiftLeft(word, shift) == { b + shift : b \in word } \cap AllBits

ShiftRight(word, shift) == { b - shift : b \in { c \in word : c >= shift } }

\* The number a word of few set bits encodes.
RECURSIVE NatOfBits(_)
NatOfBits(word) ==
    IF word = {} THEN 0
    ELSE LET b == CHOOSE x \in word : \A y \in word : y <= x
         IN  2 ^ b + NatOfBits(word \ {b})

MaskFromBits(bits) ==
    IF bits >= 64 THEN AllBits
    ELSE IF bits = 0 THEN {}
    ELSE 0 .. (bits - 1)

LevelCountFromVirtualAddressBits(virtual_address_bits) ==
    LET indexable_bits == IF virtual_address_bits > kPageShiftBits
                          THEN virtual_address_bits - kPageShiftBits ELSE 0
        level_count == (indexable_bits + kIndexBitsPerLevel - 1) \div kIndexBitsPerLevel
    IN  IF level_count = 0 THEN 1
        ELSE IF level_count > kMaxSupportedLevelCount THEN 0
        ELSE level_count

PhysicalPageBaseMaskFromBits(physical_address_bits) ==
    IF physical_address_bits > kMaxEncodablePhysicalAddressBits THEN {}
    ELSE IF physical_address_bits < kPageShiftBits THEN {}
    ELSE MaskFromBits(physical_address_bits) \cap kPageBaseMask

IndexMaskForLevel == 0 .. (kIndexBitsPerLevel - 1)

IndexFromVirtualAddress(virtual_address, shift_bits) ==
    ShiftRight(virtual_address, shift_bits) \cap IndexMaskForLevel

IsPageAligned(address) == address \cap kPageOffsetMask = {}

ShiftBitsForLevel(level) == kPageShiftBits + (level * kIndexBitsPerLevel)

\* Fault model: every level takes the index bits of the leaf level.
IndexFromVirtualAddressAtLeafLevel(virtual_address, level) ==
    IndexFromVirtualAddress(virtual_address, ShiftBitsForLevel(0))

IndexFromVirtualAddressAtLevel(virtual_address, level) ==
    IndexFromVirtualAddress(virtual_address, ShiftBitsForLevel(level))

StrongUncached == 0
CoherentCached == 1
WeakUncached == 2

CacheBitsForMode(mode) == ShiftLeft(BitsOfNat(mode, 0), kCacheShift) \cap kCacheMask

PrivilegeLevelKernelBits == {}

PagePermissions(access, execute, cache, global) ==
    [access |-> access, execute |-> execute, cache |-> cache, global |-> global]

LeafFlagsForPermissions(permissions) ==
    kPresent \cup kValid \cup PrivilegeLevelKernelBits
        \cup CacheBitsForMode(permissions.cache)
        \cup (IF permissions.global THEN kGlobal ELSE {})
        \cup (IF permissions.access = "ReadWrite"
              THEN kWrite \cup kDirty \cup kModified ELSE {})
        \cup (IF permissions.execute = "NoExecute" THEN kNoExecute ELSE {})

EncodeLeafEntry(physical_page_base, physical_page_base_mask, permissions) ==
    (physical_page_base \cap physical_page_base_mask)
        \cup LeafFlagsForPermissions(permissions)

EncodeTablePointer(physical_page_base, physical_page_base_mask) ==
    (physical_page_base \cap physical_page_base_mask) \cup kPresent \cup kValid

EntryIsPresent(entry) == entry \cap kPresent # {}

EntryPhysicalPageBase(entry, physical_page_base_mask) == entry \cap physical_page_base_mask

NoLayout ==
    [ok |-> FALSE, virtual_address_bits |-> 0, physical_address_bits |-> 0,
     level_count |-> 0, virtual_address_low_mask |-> {},
     physical_address_mask |-> {}, physical_page_base_mask |-> {}]

BuildLayout(address_bits) ==
    LET level_count == LevelCountFromVirtualAddressBits(address_bits.virtual_address_bits)
        physical_page_base_mask ==
            PhysicalPageBaseMaskFromBits(address_bits.physical_address_bits)
    IN  IF address_bits.virtual_address_bits = 0 THEN NoLayout
        ELSE IF address_bits.physical_address_bits = 0 THEN NoLayout
        ELSE IF address_bits.virtual_address_bits > 64 THEN NoLayout
        ELSE IF address_bits.physical_address_bits > 64 THEN NoLayout
        ELSE IF level_count = 0 THEN NoLayout
        ELSE IF physical_page_base_mask = {} THEN NoLayout
        ELSE [ok |-> TRUE,
              virtual_address_bits |-> address_bits.virtual_address_bits,
              physical_address_bits |-> address_bits.physical_address_bits,
              level_count |-> level_count,
              virtual_address_low_mask |-> MaskFromBits(address_bits.virtual_address_bits),
              physical_address_mask |-> MaskFromBits(address_bits.physical_address_bits),
              physical_page_base_mask |-> physical_page_base_mask]

\* Fault model: the upper bits of the address go unchecked.
ValidateVirtualAddressIgnoringUpper(virtual_address, layout) ==
    layout.virtual_address_bits # 0

ValidateVirtualAddress(virtual_address, layout) ==
    LET upper_mask == AllBits \ layout.virtual_address_low_mask
        sign == (layout.virtual_address_bits - 1) \in virtual_address
        upper == virtual_address \cap upper_mask
    IN  IF layout.virtual_address_bits = 0 THEN FALSE
        ELSE IF layout.virtual_address_bits >= 64 THEN TRUE
        ELSE IF sign THEN upper = upper_mask
        ELSE upper = {}

\* Fault model: the bits above PALEN go unchecked.
ValidatePhysicalAddressAny(physical_address, layout) == TRUE

ValidatePhysicalAddress(physical_address, layout) ==
    physical_address \cap (AllBits \ layout.physical_address_mask) = {}

\* ------------------------------------------------------------------------
\* Memory as the page-table code sees it.  memory[p] describes the page at
\* physical address p once the code has written to it: the entries it stored,
\* and whether it cleared the page (memset) first.  Every other word holds
\* raw_word.
\* ------------------------------------------------------------------------
ReadEntry(mem, table, index) ==
    IF table \notin DOMAIN mem THEN raw_word
    ELSE IF index \in DOMAIN mem[table].entries THEN mem[table].entries[index]
    ELSE IF mem[table].zeroed THEN {}
    ELSE raw_word

Without(f, key) == [k \in (DOMAIN f) \ {key} |-> f[k]]

Store(f, key, value) == [k \in (DOMAIN f) \cup {key} |-> IF k = key THEN value ELSE f[k]]

WriteEntry(mem, table, index, entry) ==
    LET page == IF table \in DOMAIN mem THEN mem[table]
                ELSE [zeroed |-> FALSE, entries |-> <<>>]
        entries == IF page.zeroed /\ entry = {} THEN Without(page.entries, index)
                   ELSE Store(page.entries, index, entry)
    IN  Store(mem, table, [page EXCEPT !.entries = entries])

\* memset(table, 0, sizeof(PageTablePage))
ZeroPage(mem, table) == Store(mem, table, [zeroed |-> TRUE, entries |-> <<>>])


\* EnsureNextLevelTable on st = [mem, pmm, pages]: [ok, next_table, st], pages
\* being the pages taken from the PMM so far.
EnsureNextLevelTable(st, current_table, index, physical_page_base_mask) ==
    LET entry == ReadEntry(st.mem, current_table, index)
        new_table_page == AllocatePageResult(st.pmm)
        new_table == ToBits(new_table_page.value)
        taken == [st EXCEPT !.pmm = new_table_page.pmm,
                            !.pages = st.pages \cup {new_table_page.value}]
    IN  IF EntryIsPresent(entry)
        THEN [ok |-> TRUE,
              next_table |-> EntryPhysicalPageBase(entry, physical_page_base_mask),
              st |-> st]
        ELSE IF ~new_table_page.ok THEN [ok |-> FALSE, next_table |-> {}, st |-> st]
        ELSE IF ~IsPageAligned(new_table) THEN [ok |-> FALSE, next_table |-> {}, st |-> taken]
        ELSE [ok |-> TRUE,
              next_table |-> new_table,
              st |-> [taken EXCEPT !.mem =
                         WriteEntry(ZeroPage(st.mem, new_table), current_table, index,
                                    EncodeTablePointer(new_table, physical_page_base_mask))]]

\* Fault model: the leaf step reports a present entry and overwrites it.
RECURSIVE MapWalkOverwriting(_, _, _, _, _, _, _)
MapWalkOverwriting(st, table, level, virtual_address, physical_address, permissions, layout) ==
    IF level > 0
    THEN LET index == IndexFromVirtualAddressAtLevel(virtual_address, level)
             next == EnsureNextLevelTable(st, table, index, layout.physical_page_base_mask)
         IN  IF ~next.ok THEN [ok |-> FALSE, st |-> next.st]
             ELSE IF next.next_table = {} THEN [ok |-> FALSE, st |-> next.st]
             ELSE MapWalkOverwriting(next.st, next.next_table, level - 1, virtual_address,
                                     physical_address, permissions, layout)
    ELSE LET leaf_index == IndexFromVirtualAddressAtLevel(virtual_address, 0)
         IN  [ok |-> ~EntryIsPresent(ReadEntry(st.mem, table, leaf_index)),
              st |-> [st EXCEPT !.mem =
                         WriteEntry(st.mem, table, leaf_index,
                                    EncodeLeafEntry(physical_address,
                                                    layout.physical_page_base_mask,
                                                    permissions))]]

\* The walk of MapPage4KiB from `level` down, and its leaf step: [ok, st].
RECURSIVE MapWalk(_, _, _, _, _, _, _)
MapWalk(st, table, level, virtual_address, physical_address, permissions, layout) ==
    IF level > 0
    THEN LET index == IndexFromVirtualAddressAtLevel(virtual_address, level)
             next == EnsureNextLevelTable(st, table, index, layout.physical_page_base_mask)
         IN  IF ~next.ok THEN [ok |-> FALSE, st |-> next.st]
             ELSE IF next.next_table = {} THEN [ok |-> FALSE, st |-> next.st]
             ELSE MapWalk(next.st, next.next_table, level - 1, virtual_address,
                          physical_address, permissions, layout)
    ELSE LET leaf_index == IndexFromVirtualAddressAtLevel(virtual_address, 0)
         IN  IF EntryIsPresent(ReadEntry(st.mem, table, leaf_index))
             THEN [ok |-> FALSE, st |-> st]
             ELSE [ok |-> TRUE,
                   st |-> [st EXCEPT !.mem =
                              WriteEntry(st.mem, table, leaf_index,
                                         EncodeLeafEntry(physical_address,
                                                         layout.physical_page_base_mask,
                                                         permissions))]]

\* Fault model: the alignment of the physical address is checked after the walk.
MapPage4KiBResultCheckingLate(mem, pmm, root, virtual_address, physical_address, permissions, address_bits) ==
    LET layout == BuildLayout(address_bits)
        st == [mem |-> mem, pmm |-> pmm, pages |-> {}]
        failed == [ok |-> FALSE, st |-> st]
        walked == MapWalk(st, root, layout.level_count - 1, virtual_address,
                          physical_address, permissions, layout)
    IN  IF ~layout.ok THEN failed
        ELSE IF root = {} THEN failed
        ELSE IF ~ValidateVirtualAddress(virtual_address, layout) THEN failed
        ELSE IF ~ValidatePhysicalAddress(physical_address, layout) THEN failed
        ELSE IF ~IsPageAligned(virtual_address) THEN failed
        ELSE IF ~IsPageAligned(physical_address) THEN [ok |-> FALSE, st |-> walked.st]
        ELSE walked

MapPage4KiBResult(mem, pmm, root, virtual_address, physical_address, permissions, address_bits) ==
    LET layout == BuildLayout(address_bits)
        st == [mem |-> mem, pmm |-> pmm, pages |-> {}]
        failed == [ok |-> FALSE, st |-> st]
    IN  IF ~layout.ok THEN failed
        ELSE IF root = {} THEN failed
        ELSE IF ~ValidateVirtualAddress(virtual_address, layout) THEN failed
        ELSE IF ~ValidatePhysicalAddress(physical_address, layout) THEN failed
        ELSE IF ~IsPageAligned(virtual_address) THEN failed
        ELSE IF ~IsPageAligned(physical_address) THEN failed
        ELSE MapWalk(st, root, layout.level_count - 1, virtual_address,
                     physical_address, permissions, layout)

\* The walk UnmapPage4KiB and Translate share: the leaf table, or none.
RECURSIVE WalkToLeafTable(_, _, _, _, _)
WalkToLeafTable(mem, table, level, virtual_address, layout) ==
    IF level > 0
    THEN LET index == IndexFromVirtualAddressAtLevel(virtual_address, level)
             entry == ReadEntry(mem, table, index)
             next == EntryPhysicalPageBase(entry, layout.physical_page_base_mask)
         IN  IF ~EntryIsPresent(entry) THEN [ok |-> FALSE, table |-> {}]
             ELSE IF next = {} THEN [ok |-> FALSE, table |-> {}]
             ELSE WalkToLeafTable(mem, next, level - 1, virtual_address, layout)
    ELSE [ok |-> TRUE, table |-> table]

UnmapPage4KiBResult(mem, root, virtual_address, address_bits) ==
    LET layout == BuildLayout(address_bits)
        failed == [ok |-> FALSE, mem |-> mem]
        leaf == WalkToLeafTable(mem, root, layout.level_count - 1, virtual_address, layout)
        leaf_index == IndexFromVirtualAddressAtLevel(virtual_address, 0)
    IN  IF ~layout.ok THEN failed
        ELSE IF root = {} THEN failed
        ELSE IF ~ValidateVirtualAddress(virtual_address, layout) THEN failed
        ELSE IF ~IsPageAligned(virtual_address) THEN failed
        ELSE IF ~leaf.ok THEN failed
        ELSE IF ~EntryIsPresent(ReadEntry(mem, leaf.table, leaf_index)) THEN failed
        ELSE [ok |-> TRUE, mem |-> WriteEntry(mem, leaf.table, leaf_index, {})]

TranslateResult(mem, root, virtual_address, address_bits) ==
    LET layout == BuildLayout(address_bits)
        none == [ok |-> FALSE, value |-> {}]
        leaf == WalkToLeafTable(mem, root, layout.level_count - 1, virtual_address, layout)
        leaf_index == IndexFromVirtualAddressAtLevel(virtual_address, 0)
        page_offset == virtual_address \cap kPageOffsetMask
        pte_entry == ReadEntry(mem, leaf.table, leaf_index)
    IN  IF ~layout.ok THEN none
        ELSE IF root = {} THEN none
        ELSE IF ~ValidateVirtualAddress(virtual_address, layout) THEN none
        ELSE IF ~leaf.ok THEN none
        ELSE IF ~EntryIsPresent(pte_entry) THEN none
        ELSE [ok |-> TRUE,
              value |-> EntryPhysicalPageBase(pte_entry, layout.physical_page_base_mask)
                            \cup page_offset]

\* ------------------------------------------------------------------------
\* Paging inputs
\* ------------------------------------------------------------------------
MaxMaps == 1
MaxIsolationMaps == 2

\* Alloc calls per heap lifetime
MaxHeapAllocs == 3
MaxTraps == 2
MaxTimerStarts == 1
MaxBackendReads == 3
MaxAddRegionCalls == 3

\* A parse of a device tree counts as this many calls of the bound above.
ParseCallBudget == 2

AddressSpaceBits(valen, palen) ==
    [virtual_address_bits |-> valen, physical_address_bits |-> palen]

AddressBitsInputs ==
    { AddressSpaceBits(48, 48), AddressSpaceBits(39, 44), AddressSpaceBits(12, 48),
      AddressSpaceBits(39, 20), AddressSpaceBits(64, 61), AddressSpaceBits(48, 62),
      AddressSpaceBits(48, 12), AddressSpaceBits(0, 48) }

VirtualInputs ==
    { {}, {20} \cup (38 .. 63), {39}, {20, 3}, kPageBaseMask }

PhysicalInputs ==
    { {12, 13}, {13, 44}, {13, 2} }

PermissionsInputs ==
    { PagePermissions("ReadWrite", "NoExecute", CoherentCached, TRUE),
      PagePermissions("ReadOnly", "Executable", StrongUncached, FALSE) }

OffsetInputs == { {}, {11} }

\* CRMD in mapped address translation mode (DA=0, PG=1).
MappedMode == kPagingEnable

\* The runs of the model: the AddressSpaceBits the callers pass, the word that
\* memory the code never wrote holds, the size of the RAM behind the PMM and
\* the translation mode the calls are made in.  The mapped-mode runs
\* identity-map the RAM, so that an access through a physical address used as
\* a pointer lands on the page of that address.
PagingRun(bits, raw, ram_pages, mode) ==
    [bits |-> bits, raw |-> raw, ram_pages |-> ram_pages, crmd |-> mode]

PagingRuns ==
    { PagingRun(bits, {}, 8, kDirectAddressingEnable) : bits \in AddressBitsInputs }
        \cup { PagingRun(AddressSpaceBits(39, 20), kPresent \cup kValid \cup {12},
                         8, kDirectAddressingEnable),
               PagingRun(AddressSpaceBits(48, 48), {}, 4, kDirectAddressingEnable),
               PagingRun(AddressSpaceBits(48, 48), {}, 8, MappedMode) }

PagingRam(ram_pages) == Region(Page(0), ram_pages * kPageSizeBytes, Usable)

PagingBoot(ram_pages) ==
    InitializeCall(BuildMap(<<>>, <<PagingRam(ram_pages)>>, 1), NoKernelNoDtb)

\* The state the paging tests start from: an initialized PMM, no root yet.
InitPagingRun(run) ==
        \E boot \in {PagingBoot(run.ram_pages)} :
            /\ m_bitmap_physical_base = boot.r.bitmap_base
            /\ m_bitmap_size_bytes = boot.r.bitmap_size
            /\ m_tracked_physical_base = boot.r.tracked_base
            /\ m_tracked_physical_limit = boot.r.tracked_limit
            /\ m_page_count = boot.r.page_count
            /\ m_free_page_count = boot.r.free
            /\ m_next_search_index = 0
            /\ m_initialized = boot.r.ok
            /\ bitmap = boot.r.bits
            /\ init_in = [map |-> boot.map,
                          kernel_physical_base |-> boot.arg.kernel_physical_base,
                          kernel_physical_end |-> boot.arg.kernel_physical_end,
                          device_tree_physical_base |-> boot.arg.device_tree_physical_base,
                          device_tree_size_bytes |-> boot.arg.device_tree_size_bytes]
            /\ initial_free = boot.r.free
            /\ allocated = {}
            /\ n_alloc = 0
            /\ n_free = 0
            /\ reserve_called = FALSE
            /\ reserved_pages = {}
            /\ freed_foreign = FALSE
            /\ last = Call("Initialize", 0, 0, boot.r.ok, 0)
            /\ cpucfg_address_bits = run.bits
            /\ raw_word = run.raw
            /\ root_physical_address = {}
            /\ memory = <<>>
            /\ n_map = 0
            /\ last_paging = NoPagingCall
            /\ crmd = run.crmd
            /\ csr = [pwcl |-> {}, pwch |-> {}, pgdl |-> {}, pgdh |-> {}]
            /\ csr_writes = {}
            /\ BringupIdle

InitPaging == \E run \in PagingRuns : InitPagingRun(run)

\* ------------------------------------------------------------------------
\* Paging operations
\* ------------------------------------------------------------------------
PmmUnchangedByPaging ==
    UNCHANGED <<m_bitmap_physical_base, m_bitmap_size_bytes, m_tracked_physical_base,
                m_tracked_physical_limit, m_page_count, m_initialized, init_in,
                initial_free, n_free, reserve_called, reserved_pages, freed_foreign,
                last>>

PmmBecomes(pmm, pages) ==
    /\ bitmap' = pmm.bits
    /\ m_free_page_count' = pmm.free
    /\ m_next_search_index' = pmm.next
    /\ allocated' = allocated \cup pages
    /\ n_alloc' = n_alloc + Cardinality(pages)
    /\ PmmUnchangedByPaging

\* The pointer the page-table code dereferences for the table page at
\* physical_page_base: reinterpret_cast<PageTablePage*>(physical_page_base).
PageTablePageFromPhysical(physical_page_base) == physical_page_base

\* The callers of the model allocate one root and keep it.
AllocateRootPageTable ==
    LET page == AllocatePageResult(PmmNow)
        root_physical_base == ToBits(page.value)
    IN  IF ~page.ok
        THEN /\ last_paging' = [op |-> "AllocateRootPageTable", ok |-> FALSE]
             /\ UNCHANGED <<pmmVars, histVars, last, cpucfg_address_bits,
                            root_physical_address, memory, raw_word, n_map,
                            hwVars, bringupVars>>
        ELSE /\ root_physical_address = {}
             /\ PmmBecomes(page.pmm, {page.value})
             /\ memory' = ZeroPage(memory, root_physical_base)
             /\ root_physical_address' = root_physical_base
             /\ last_paging' = [op |-> "AllocateRootPageTable", ok |-> TRUE,
                                value |-> root_physical_base]
             /\ UNCHANGED <<cpucfg_address_bits, raw_word, n_map, hwVars, bringupVars>>

\* MapPage4KiB, the model following at most max_maps successful calls.
MapPage4KiBUpTo(max_maps, virtual_address, physical_address, permissions) ==
    LET r == MapPage4KiBResult(memory, PmmNow, root_physical_address, virtual_address,
                               physical_address, permissions, cpucfg_address_bits)
    IN  /\ r.ok => n_map < max_maps
        /\ PmmBecomes(r.st.pmm, r.st.pages)
        /\ memory' = r.st.mem
        /\ n_map' = IF r.ok THEN n_map + 1 ELSE n_map
        /\ last_paging' = [op |-> "MapPage4KiB", ok |-> r.ok,
                           virtual_address |-> virtual_address,
                           physical_address |-> physical_address,
                           permissions |-> permissions,
                           table_pointer |-> PageTablePageFromPhysical(root_physical_address)]
        /\ UNCHANGED <<cpucfg_address_bits, root_physical_address, raw_word,
                       hwVars, bringupVars>>

MapPage4KiB(virtual_address, physical_address, permissions) ==
    MapPage4KiBUpTo(MaxMaps, virtual_address, physical_address, permissions)

UnmapPage4KiB(virtual_address) ==
    LET r == UnmapPage4KiBResult(memory, root_physical_address, virtual_address,
                                 cpucfg_address_bits)
    IN  /\ memory' = r.mem
        /\ last_paging' = [op |-> "UnmapPage4KiB", ok |-> r.ok,
                           virtual_address |-> virtual_address,
                           table_pointer |-> PageTablePageFromPhysical(root_physical_address)]
        /\ UNCHANGED <<pmmVars, histVars, last, cpucfg_address_bits, root_physical_address,
                       raw_word, n_map, hwVars, bringupVars>>

Translate(virtual_address) ==
    LET r == TranslateResult(memory, root_physical_address, virtual_address, cpucfg_address_bits)
    IN  /\ last_paging' = [op |-> "Translate", ok |-> r.ok,
                           virtual_address |-> virtual_address,
                           value |-> r.value,
                           table_pointer |-> PageTablePageFromPhysical(root_physical_address)]
        /\ UNCHANGED <<pmmVars, histVars, last, cpucfg_address_bits, root_physical_address,
                       memory, raw_word, n_map, hwVars, bringupVars>>

NextPaging ==
    \/ AllocateRootPageTable
    \/ \E va \in VirtualInputs, pa \in PhysicalInputs, perms \in PermissionsInputs :
           MapPage4KiB(va, pa, perms)
    \/ \E va \in VirtualInputs : UnmapPage4KiB(va)
    \/ \E va \in VirtualInputs, off \in OffsetInputs : Translate(va \cup off)

SpecPaging == InitPaging /\ [][NextPaging]_vars

\* ------------------------------------------------------------------------
\* Two mappings under one root: the runs in which the isolation of one page
\* from another is checked.
\* ------------------------------------------------------------------------
IsolationRuns ==
    { PagingRun(AddressSpaceBits(39, 44), {}, 8, kDirectAddressingEnable),
      PagingRun(AddressSpaceBits(40, 48), {}, 8, kDirectAddressingEnable),
      PagingRun(AddressSpaceBits(64, 48), {}, 16, kDirectAddressingEnable) }

\* Pages of both halves: neighbours in one leaf table, pages that part ways
\* at a higher level, the first and the last page of the higher half.
IsolationVirtualInputs ==
    { {}, {12}, {21}, 38 .. 63, 39 .. 63, {12} \cup (39 .. 63), kPageBaseMask }

IsolationPhysicalInputs == { {12, 13}, {13, 14} }

IsolationPermissions == PagePermissions("ReadWrite", "NoExecute", CoherentCached, TRUE)

InitIsolation == \E run \in IsolationRuns : InitPagingRun(run)

NextIsolation ==
    \/ AllocateRootPageTable
    \/ \E va \in IsolationVirtualInputs, pa \in IsolationPhysicalInputs :
           MapPage4KiBUpTo(MaxIsolationMaps, va, pa, IsolationPermissions)
    \/ \E va \in IsolationVirtualInputs : UnmapPage4KiB(va)

SpecIsolation == InitIsolation /\ [][NextIsolation]_vars



\* ========================================================================
\* Virtual address layout (virtual_layout.h) and translation mode
\* ========================================================================
\* Addition of two 64-bit words.
\* The carry into bit i: generated at some lower bit and propagated by every
\* bit in between.
CarryInto(a, b, i) ==
    \E j \in 0 .. (i - 1) :
        /\ j \in a /\ j \in b
        /\ \A k \in (j + 1) .. (i - 1) : k \in a \/ k \in b

Plus(a, b) == { i \in AllBits : ((i \in a) # (i \in b)) # CarryInto(a, b, i) }

CanonicalHighHalfBase(virtual_address_bits) ==
    IF virtual_address_bits = 0 THEN {}
    ELSE IF virtual_address_bits >= 64 THEN {}
    ELSE ShiftLeft(AllBits, virtual_address_bits) \cup {virtual_address_bits - 1}

kKernelHigherHalfOffsetBytes == {}

kPhysMapOffsetBytes == {30}

KernelHigherHalfBase(virtual_address_bits) ==
    Plus(CanonicalHighHalfBase(virtual_address_bits), kKernelHigherHalfOffsetBytes)

PhysMapBase(virtual_address_bits) ==
    Plus(CanonicalHighHalfBase(virtual_address_bits), kPhysMapOffsetBytes)

ToPhysMapVirtual(physical_address, virtual_address_bits) ==
    Plus(PhysMapBase(virtual_address_bits), physical_address)

\* a - b in 64-bit wrapping arithmetic: a + ~b + 1.
Minus(a, b) == Plus(Plus(a, AllBits \ b), {0})

\* Fault model: the physmap base is not taken off again.
FromPhysMapVirtualKeepingBase(virtual_address, virtual_address_bits) == virtual_address

FromPhysMapVirtual(virtual_address, virtual_address_bits) ==
    Minus(virtual_address, PhysMapBase(virtual_address_bits))

\* pmm.cpp, IsMappedAddressTranslationMode
IsMappedAddressTranslationMode ==
    (crmd \cap kDirectAddressingEnable = {}) /\ (crmd \cap kPagingEnable # {})

\* ========================================================================
\* Hardware page-walker configuration (paging_hw.cpp)
\* ========================================================================
kMaxIndexLevels == 5

\* The loop that splits the VALEN - 12 index bits into widths, lowest level
\* first: [ok, widths].
RECURSIVE WalkerWidths(_, _)
WalkerWidths(remaining, level_count) ==
    IF remaining = 0 THEN [ok |-> TRUE, widths |-> <<>>]
    ELSE IF level_count >= kMaxIndexLevels THEN [ok |-> FALSE, widths |-> <<>>]
    ELSE LET w == IF remaining >= kIndexBitsPerLevel THEN kIndexBitsPerLevel ELSE remaining
             rest == WalkerWidths(remaining - w, level_count + 1)
         IN  [ok |-> rest.ok, widths |-> <<w>> \o rest.widths]

\* Fault model: every level starts at the page shift.
WalkerBaseOfLowestLevel(widths, i) == kPageShiftBits

\* bases[i]: the index start bit of each level.
RECURSIVE WalkerBase(_, _)
WalkerBase(widths, i) ==
    IF i = 1 THEN kPageShiftBits ELSE WalkerBase(widths, i - 1) + widths[i - 1]

\* static_cast<std::uint64_t>(value & mask) << shift
PackField(value, field_bits, shift) ==
    ShiftLeft(BitsOfNat(value, 0) \cap (0 .. (field_bits - 1)), shift)

NoWalkerConfig == [ok |-> FALSE, pwcl |-> {}, pwch |-> {}]

\* Fault model: a configuration is produced for every VALEN.
Make4KiBPageWalkerConfigResultAnyDepth(address_bits) ==
    [ok |-> TRUE, pwcl |-> {}, pwch |-> {}]

Make4KiBPageWalkerConfigResult(address_bits) ==
    LET split == WalkerWidths(address_bits.virtual_address_bits - kPageShiftBits, 0)
        widths == split.widths
        level_count == Len(widths)
        pwcl == PackField(WalkerBase(widths, 1), 5, 0)
                    \cup PackField(widths[1], 5, 5)
                    \cup (IF level_count >= 2
                          THEN PackField(WalkerBase(widths, 2), 5, 10)
                                   \cup PackField(widths[2], 5, 15)
                          ELSE {})
                    \cup (IF level_count >= 3
                          THEN PackField(WalkerBase(widths, 3), 5, 20)
                                   \cup PackField(widths[3], 5, 25)
                          ELSE {})
        pwch == (IF level_count >= 4
                 THEN PackField(WalkerBase(widths, 4), 6, 0)
                          \cup PackField(widths[4], 6, 6)
                 ELSE {})
                    \cup (IF level_count >= 5
                          THEN PackField(WalkerBase(widths, 5), 6, 12)
                                   \cup PackField(widths[5], 6, 18)
                          ELSE {})
    IN  IF address_bits.virtual_address_bits <= kPageShiftBits THEN NoWalkerConfig
        ELSE IF ~split.ok THEN NoWalkerConfig
        ELSE [ok |-> TRUE, pwcl |-> pwcl, pwch |-> pwch]

\* ------------------------------------------------------------------------
\* heap.cpp: the boundary-tag allocator
\*
\* Pointers and sizes are integers in the two's-complement window (a value
\* >= 2^63 is a negative integer, SIZE_MAX is -1); the pointer p stands for
\* the address heap.origin + p, and 0 for nullptr.  heap.mem holds the 8-byte
\* words of [g_heap_begin, g_heap_end) that were stored as words at aligned
\* addresses, keyed by their address; every other word of the region holds
\* heap.fill, what the memory held before Init.  heap.bytes holds the bytes
\* stored one at a time (the characters a String puts into its buffer) or
\* as a word at an unaligned address, keyed by their address; such a byte
\* replaces the byte of the word below it until the word is stored again.
\* Memory is little-endian.  heap.wild becomes TRUE when the code reads or
\* writes outside the region, or Alloc follows the free list for more steps
\* than the region has bytes, and no call is modelled after that.
\* ------------------------------------------------------------------------
kHeapAlign == 16

kFlagMask == kHeapAlign - 1

kUsedFlag == 1

\* sizeof(BlockHeader): one size_t, alignas(kHeapAlign)
HeaderSize == 16

\* sizeof(BlockFooter)
FooterSize == 8

\* sizeof(FreeNode): Next at offset 0, Prev at offset PrevOffset
FreeNodeSize == 16

PrevOffset == 8

MinFreeBlockSize ==
    AlignDown(HeaderSize + FreeNodeSize + FooterSize + (kHeapAlign - 1), kHeapAlign)

RoundUp(value, alignment) == AlignDown(value + (alignment - 1), alignment)

\* sizeof(std::size_t): the footer is one word
HeapWordBytes == FooterSize

RECURSIVE BitAndNat(_, _)
BitAndNat(a, b) ==
    IF a = 0 \/ b = 0 THEN 0
    ELSE (a % 2) * (b % 2) + 2 * BitAndNat(a \div 2, b \div 2)

\* The alignments of the model are below 2^63.
IsPowerOfTwo(x) == x > 0 /\ BitAndNat(x, x - 1) = 0

\* The 8 bytes at address lie in the region.
InHeap(h, address) ==
    /\ UGe(address, h.g_heap_begin)
    /\ ULt(address, h.g_heap_end)
    /\ h.g_heap_end - address >= HeapWordBytes

ByteInHeap(h, address) == UGe(address, h.g_heap_begin) /\ ULt(address, h.g_heap_end)

HeapWordCount(h) == (h.g_heap_end - h.g_heap_begin) \div HeapWordBytes

HeapByteCount(h) == h.g_heap_end - h.g_heap_begin

Wild(h) == [h EXCEPT !.wild = TRUE]

\* A read of the word at address: the heap as it is when the word is in the
\* region.
Seen(h, address) == IF InHeap(h, address) THEN h ELSE Wild(h)

\* Byte i (0 .. 7) of the word w.
ByteOfWord(w, i) ==
    LET low == IF w >= 0 THEN w ELSE (w + 1073741824) + 1073741824
    IN  IF i = 0 THEN low % 256
        ELSE IF i = 1 THEN (low \div 256) % 256
        ELSE IF i = 2 THEN (low \div 65536) % 256
        ELSE IF i = 3 THEN (low \div 16777216) + (IF w < 0 THEN 128 ELSE 0)
        ELSE IF w < 0 THEN 255 ELSE 0

\* The word of 8 bytes, b[1] the lowest.  A value outside the integers of
\* the model is computed as it is and does not evaluate.
WordOfBytes(b) ==
    LET low == b[1] + 256 * b[2] + 65536 * b[3] + 16777216 * (b[4] % 128)
        high == {b[5], b[6], b[7], b[8]}
    IN  IF b[4] < 128 /\ high = {0} THEN low
        ELSE IF b[4] >= 128 /\ high = {255} THEN (low - 1073741824) - 1073741824
        ELSE low + 16777216 * (b[4] - (b[4] % 128))
                 + (65536 * 65536) * (b[5] + 256 * b[6] + 65536 * b[7] + 16777216 * b[8])

\* The aligned word as it was last stored, without the bytes stored later.
StoredWord(h, address) == IF address \in DOMAIN h.mem THEN h.mem[address] ELSE h.fill

ReadByte(h, address) ==
    IF address \in DOMAIN h.bytes THEN h.bytes[address]
    ELSE ByteOfWord(StoredWord(h, AlignDown(address, HeapWordBytes)), address % HeapWordBytes)

\* The 8 bytes at address, lowest first.
WordBytes(h, address) == [i \in 1 .. HeapWordBytes |-> ReadByte(h, address + (i - 1))]

ReadWord(h, address) ==
    IF ~InHeap(h, address) THEN 0
    ELSE IF address % HeapWordBytes = 0
            /\ DOMAIN h.bytes \cap (address .. (address + (HeapWordBytes - 1))) = {}
    THEN StoredWord(h, address)
    ELSE WordOfBytes(WordBytes(h, address))

WriteByte(h, address, value) ==
    IF ByteInHeap(h, address)
    THEN [h EXCEPT !.bytes = (address :> value) @@ h.bytes]
    ELSE Wild(h)

RECURSIVE WriteBytesFrom(_, _, _, _)
WriteBytesFrom(h, address, w, i) ==
    IF i = HeapWordBytes THEN h
    ELSE WriteBytesFrom(WriteByte(h, address + i, ByteOfWord(w, i)), address, w, i + 1)

\* The bytes stored one at a time that a store of the word at address leaves.
BytesOutside(h, address) ==
    LET kept == DOMAIN h.bytes \ (address .. (address + (HeapWordBytes - 1)))
    IN  IF kept = DOMAIN h.bytes THEN h.bytes
        ELSE IF kept = {} THEN <<>>
        ELSE [a \in kept |-> h.bytes[a]] @@ <<>>

WriteWord(h, address, value) ==
    IF ~InHeap(h, address) THEN Wild(h)
    ELSE IF address % HeapWordBytes = 0
    THEN [h EXCEPT !.mem = (address :> value) @@ h.mem,
                   !.bytes = BytesOutside(h, address)]
    ELSE WriteBytesFrom(h, address, value, 0)

BlockSize(h, header) == AlignDown(ReadWord(h, header), kHeapAlign)

IsUsed(h, header) == ReadWord(h, header) % 2 = kUsedFlag

SetHeaderAndFooter(h, header, size_bytes, used) ==
    LET flags == IF used THEN kUsedFlag ELSE 0
        word == IF size_bytes % 2 = 1 THEN size_bytes ELSE size_bytes + flags
        with_header == WriteWord(h, header, word)
    IN  WriteWord(with_header, header + size_bytes - FooterSize,
                  IF InHeap(h, header) THEN ReadWord(with_header, header) ELSE word)

NextBlock(h, header) == header + BlockSize(h, header)

PrevBlock(h, header) == header - AlignDown(ReadWord(h, header - FooterSize), kHeapAlign)

NodeFor(header) == header + HeaderSize

HeaderFor(node) == node - HeaderSize

FreeListRemove(h, node) ==
    LET seen == Seen(Seen(h, node), node + PrevOffset)
        unlinked_before ==
            IF ReadWord(seen, node + PrevOffset) # 0
            THEN WriteWord(seen, ReadWord(seen, node + PrevOffset), ReadWord(seen, node))
            ELSE [seen EXCEPT !.g_free_list_head = ReadWord(seen, node)]
        unlinked_after ==
            IF ReadWord(unlinked_before, node) # 0
            THEN WriteWord(unlinked_before, ReadWord(unlinked_before, node) + PrevOffset,
                           ReadWord(unlinked_before, node + PrevOffset))
            ELSE unlinked_before
    IN  WriteWord(WriteWord(unlinked_after, node, 0), node + PrevOffset, 0)

FreeListInsertFront(h, node) ==
    LET cleared == WriteWord(h, node + PrevOffset, 0)
        linked == WriteWord(cleared, node, cleared.g_free_list_head)
        back == IF linked.g_free_list_head # 0
                THEN WriteWord(linked, linked.g_free_list_head + PrevOffset, node)
                ELSE linked
    IN  [back EXCEPT !.g_free_list_head = node]

HeapNotInitialized(origin, fill) ==
    [g_heap_begin |-> 0, g_heap_end |-> 0, g_free_list_head |-> 0, g_initialized |-> FALSE,
     mem |-> <<>>, bytes |-> <<>>, fill |-> fill, origin |-> origin, wild |-> FALSE]

\* Init on memory at origin + heap_start that holds `fill` in every word.
HeapInit(origin, heap_start, heap_size_bytes, fill) ==
    LET begin == heap_start
        aligned_begin == AlignUp(begin, kHeapAlign)
        delta == aligned_begin - begin
        shrunk == IF UGt(aligned_begin, begin) THEN heap_size_bytes - delta
                  ELSE heap_size_bytes
        rounded == AlignDown(shrunk, kHeapAlign)
        region == [g_heap_begin |-> aligned_begin, g_heap_end |-> aligned_begin + rounded,
                   g_free_list_head |-> 0, g_initialized |-> FALSE,
                   mem |-> <<>>, bytes |-> <<>>, fill |-> fill, origin |-> origin, wild |-> FALSE]
        first == aligned_begin
        tagged == SetHeaderAndFooter(region, first, rounded, FALSE)
        node == NodeFor(first)
        listed == WriteWord(WriteWord(tagged, node, 0), node + PrevOffset, 0)
    IN  IF UGt(aligned_begin, begin) /\ ULe(heap_size_bytes, delta)
        THEN HeapNotInitialized(origin, fill)
        ELSE IF ULt(rounded, MinFreeBlockSize) THEN HeapNotInitialized(origin, fill)
        ELSE [listed EXCEPT !.g_free_list_head = node, !.g_initialized = TRUE]

\* The while loop of Alloc: payload_aligned once the prefix is empty, large
\* enough for a free block, or the block no longer fits.
RECURSIVE BumpPrefix(_, _, _, _, _)
BumpPrefix(block_begin, block_end, payload_aligned, alignment, block_needed) ==
    LET alloc_header_begin == payload_aligned - HeaderSize
        bumped == payload_aligned + alignment
    IN  IF UGt(alloc_header_begin, block_begin)
           /\ ULt(alloc_header_begin - block_begin, MinFreeBlockSize)
        THEN IF UGt(bumped - HeaderSize + block_needed, block_end) THEN bumped
             ELSE BumpPrefix(block_begin, block_end, bumped, alignment, block_needed)
        ELSE payload_aligned

\* Alloc, one free block: where the allocation would go and whether it fits.
AllocPlace(h, node, alignment, block_needed) ==
    LET block_begin == HeaderFor(node)
        block_end == block_begin + BlockSize(h, block_begin)
        payload_aligned == BumpPrefix(block_begin, block_end,
                                      AlignUp(block_begin + HeaderSize, alignment),
                                      alignment, block_needed)
        alloc_header_begin == payload_aligned - HeaderSize
    IN  [block_begin |-> block_begin, block_end |-> block_end,
         alloc_header_begin |-> alloc_header_begin,
         prefix |-> alloc_header_begin - block_begin,
         fits |-> ~UGt(alloc_header_begin + block_needed, block_end)]

\* Alloc, the split of the chosen free block: the prefix goes back on the
\* free list when it can hold a free block.
AllocSplitPrefix(removed, place) ==
    IF UGe(place.prefix, MinFreeBlockSize)
    THEN FreeListInsertFront(
             SetHeaderAndFooter(removed, place.block_begin, place.prefix, FALSE),
             NodeFor(place.block_begin))
    ELSE removed

\* The suffix goes back on the free list, or is absorbed into the allocation.
AllocSplitSuffix(alloc_block, place, block_needed, suffix_begin, suffix) ==
    IF UGe(suffix, MinFreeBlockSize)
    THEN FreeListInsertFront(SetHeaderAndFooter(alloc_block, suffix_begin, suffix, FALSE),
                             NodeFor(suffix_begin))
    ELSE IF suffix # 0
    THEN SetHeaderAndFooter(alloc_block, place.alloc_header_begin, block_needed + suffix, TRUE)
    ELSE alloc_block

AllocSplit(h, node, place, block_needed) ==
    [heap |-> AllocSplitSuffix(
                  SetHeaderAndFooter(AllocSplitPrefix(FreeListRemove(h, node), place),
                                     place.alloc_header_begin, block_needed, TRUE),
                  place, block_needed, place.alloc_header_begin + block_needed,
                  place.block_end - (place.alloc_header_begin + block_needed)),
     ptr |-> place.alloc_header_begin + HeaderSize]

\* Alloc, the first-fit loop over the free list.
RECURSIVE AllocScan(_, _, _, _, _)
AllocAt(h, node, place, alignment, block_needed, fuel) ==
    IF place.fits THEN AllocSplit(h, node, place, block_needed)
    ELSE AllocScan(h, ReadWord(h, node), alignment, block_needed, fuel - 1)

AllocScan(h, node, alignment, block_needed, fuel) ==
    IF node = 0 THEN [heap |-> h, ptr |-> 0]
    ELSE IF fuel = 0 \/ ~InHeap(h, HeaderFor(node)) \/ ~InHeap(h, node)
    THEN [heap |-> Wild(h), ptr |-> 0]
    ELSE AllocAt(h, node, AllocPlace(h, node, alignment, block_needed), alignment,
                 block_needed, fuel)

Alloc(h, size, alignment) ==
    LET normalized == IF ULt(alignment, kHeapAlign) THEN kHeapAlign ELSE alignment
        payload_size == RoundUp(size, kHeapAlign)
        block_needed == RoundUp(HeaderSize + payload_size + FooterSize, kHeapAlign)
    IN  IF ~h.g_initialized THEN [heap |-> h, ptr |-> 0]
        ELSE IF ~IsPowerOfTwo(normalized) THEN [heap |-> h, ptr |-> 0]
        ELSE AllocScan(h, h.g_free_list_head, normalized, block_needed,
                       HeapByteCount(h))

\* Free reads the block sizes through BlockHeader (size_t) after
\* FreeListRemove has stored through FreeNode (pointers): a build may take
\* each size from the word as it is after the stores or as it was before
\* them.
SizesAround(before, after, header) == {BlockSize(before, header), BlockSize(after, header)}

\* Free, the merge with the next block: the heaps it can leave.
FreeCoalesceNextMerged(h, removed, header, next) ==
    { SetHeaderAndFooter(removed, header, header_size + next_size, FALSE) :
          header_size \in SizesAround(h, removed, header),
          next_size \in SizesAround(h, removed, next) }

FreeCoalesceNextAt(h, header, next) ==
    IF ~ULt(next, h.g_heap_end) THEN {h}
    ELSE IF ~InHeap(h, next) THEN {Wild(h)}
    ELSE IF IsUsed(h, next) THEN {h}
    ELSE FreeCoalesceNextMerged(h, FreeListRemove(h, NodeFor(next)), header, next)

FreeCoalesceNext(h, header) == FreeCoalesceNextAt(h, header, NextBlock(h, header))

\* Free, the merge with the previous block: the heaps it can leave, each
\* with the header of the block to put on the free list.
FreeCoalescePrevMerged(h, removed, header, prev) ==
    { [heap |-> SetHeaderAndFooter(removed, prev, prev_size + header_size, FALSE),
       header |-> prev] :
          prev_size \in SizesAround(h, removed, prev),
          header_size \in SizesAround(h, removed, header) }

FreeCoalescePrevAt(h, header, prev) ==
    IF ~UGt(header, h.g_heap_begin) THEN {[heap |-> h, header |-> header]}
    ELSE IF ~InHeap(h, header - FooterSize) THEN {[heap |-> Wild(h), header |-> header]}
    ELSE IF ~UGe(prev, h.g_heap_begin) THEN {[heap |-> h, header |-> header]}
    ELSE IF ~InHeap(h, prev) THEN {[heap |-> Wild(h), header |-> header]}
    ELSE IF IsUsed(h, prev) THEN {[heap |-> h, header |-> header]}
    ELSE FreeCoalescePrevMerged(h, FreeListRemove(h, NodeFor(prev)), header, prev)

FreeCoalescePrev(h, header) == FreeCoalescePrevAt(h, header, PrevBlock(h, header))

\* Free: the heaps it can leave.
FreeBlock(h, header) ==
    { FreeListInsertFront(merged.heap, NodeFor(merged.header)) :
          merged \in UNION { FreeCoalescePrev(with_next, header) :
                                 with_next \in FreeCoalesceNext(
                                     SetHeaderAndFooter(Seen(h, header), header,
                                                        BlockSize(h, header), FALSE),
                                     header) } }

Free(h, ptr) == IF ~h.g_initialized \/ ptr = 0 THEN {h} ELSE FreeBlock(h, ptr - HeaderSize)

TotalBytes(h) == IF ~h.g_initialized THEN 0 ELSE h.g_heap_end - h.g_heap_begin

\* The loop of FreeBytes has no bound: it returns the sum when the list ends
\* in nullptr, reads outside the region ("wild") when a node or its header
\* lies outside, and walks for ever ("loops") when it comes to a node a
\* second time.
RECURSIVE FreeBytesFrom(_, _, _, _)
FreeBytesFrom(h, node, visited, total) ==
    IF node = 0 THEN [end |-> "returns", total |-> total]
    ELSE IF ~InHeap(h, HeaderFor(node)) \/ ~InHeap(h, node) THEN [end |-> "wild", total |-> 0]
    ELSE IF node \in visited THEN [end |-> "loops", total |-> 0]
    ELSE FreeBytesFrom(h, ReadWord(h, node), visited \cup {node},
                       total + BlockSize(h, HeaderFor(node)))

FreeBytes(h) ==
    IF ~h.g_initialized THEN [end |-> "returns", total |-> 0]
    ELSE FreeBytesFrom(h, h.g_free_list_head, {}, 0)

\* ------------------------------------------------------------------------
\* The callers of the heap: the record of the calls, and helpers/string.h
\*
\* A caller's state r has the heap (r.heap), the record of the calls made on
\* it (r.hist) and the String it works on (r.str).  Free can leave more than
\* one heap, so every step gives the set of the states it can end in; a
\* state whose heap is wild takes no further step.
\* ------------------------------------------------------------------------
HeapHistAlloc(hist, ptr, size, alignment) ==
    [op |-> "Alloc", calls |-> hist.calls + 1,
     live |-> IF ptr = 0 THEN hist.live
              ELSE hist.live \cup {[ptr |-> ptr, size |-> size, alignment |-> alignment]},
     size |-> size, alignment |-> alignment, ptr |-> ptr]

HeapHistFree(hist, allocation) ==
    [op |-> "Free", calls |-> hist.calls, live |-> hist.live \ {allocation},
     size |-> allocation.size, alignment |-> allocation.alignment, ptr |-> allocation.ptr]

AllocReturned(r, a, size, alignment) ==
    [heap |-> a.heap, hist |-> HeapHistAlloc(r.hist, a.ptr, size, alignment), ptr |-> a.ptr]

AllocCalled(r, size, alignment) ==
    AllocReturned(r, Alloc(r.heap, size, alignment), size, alignment)

FreeCalled(r, allocation) ==
    { [heap |-> freed, hist |-> HeapHistFree(r.hist, allocation)] :
          freed \in Free(r.heap, allocation.ptr) }

Then(states, Step(_)) == UNION { IF r.heap.wild THEN {r} ELSE Step(r) : r \in states }

kInitialCapacityBytes == 16

\* String(): m_data nullptr
NullString == [m_data |-> 0, m_capacity |-> 0, m_length |-> 0]

\* The allocation behind a String: Alloc(m_capacity, alignof(char))
StringBuffer(str) == [ptr |-> str.m_data, size |-> str.m_capacity, alignment |-> 1]

_initialize(r) ==
    { [heap |-> WriteByte(a.heap, a.ptr, 0), hist |-> a.hist,
       str |-> [m_data |-> a.ptr, m_capacity |-> kInitialCapacityBytes, m_length |-> 0]] :
          a \in {AllocCalled(r, kInitialCapacityBytes, 1)} }

\* for (i = 0; i < length; i++) to[i] = from[i], one byte after the other
RECURSIVE CopyBytesFrom(_, _, _, _, _)
CopyBytesFrom(h, to, from, i, length) ==
    IF i = length THEN h
    ELSE IF ~ByteInHeap(h, from + i) \/ ~ByteInHeap(h, to + i) THEN Wild(h)
    ELSE CopyBytesFrom(WriteByte(h, to + i, ReadByte(h, from + i)), to, from, i + 1, length)

\* The same loop.  When the loop reads no byte it has written (the
\* destination does not begin inside the source) and stays in the region,
\* the bytes are those of the source as it was.
CopyBytes(h, to, from, i, length) ==
    IF /\ i < length
       /\ \A k \in i .. (length - 1) : ByteInHeap(h, from + k) /\ ByteInHeap(h, to + k)
       /\ ~(from < to /\ to < from + length)
    THEN [h EXCEPT !.bytes = [a \in (to + i) .. (to + (length - 1)) |->
                                 ReadByte(h, from + (a - to))] @@ h.bytes]
    ELSE CopyBytesFrom(h, to, from, i, length)

\* The capacities of the model are far below 2^32.
_double_capacity(r) ==
    UNION { { [heap |-> f.heap, hist |-> f.hist,
               str |-> [m_data |-> a.ptr, m_capacity |-> r.str.m_capacity * 2,
                        m_length |-> r.str.m_length]] :
                  f \in FreeCalled([heap |-> WriteByte(CopyBytes(a.heap, a.ptr, r.str.m_data,
                                                                 0, r.str.m_length),
                                                       a.ptr + r.str.m_length, 0),
                                    hist |-> a.hist],
                                   StringBuffer(r.str)) } :
                a \in {AllocCalled(r, r.str.m_capacity * 2, 1)} }

\* while ((m_length + 2) > m_capacity) _double_capacity();
RECURSIVE StringGrow(_)
StringGrow(r) ==
    IF r.heap.wild \/ r.str.m_length + 2 <= r.str.m_capacity THEN {r}
    ELSE UNION { StringGrow(doubled) : doubled \in _double_capacity(r) }

\* The characters of chars from index i on that fit the buffer with their
\* terminator: append stores one after the other without another
\* _double_capacity.
RunLength(str, chars, i) ==
    IF str.m_capacity - (str.m_length + 1) < Len(chars) - (i - 1)
    THEN str.m_capacity - (str.m_length + 1)
    ELSE Len(chars) - (i - 1)

\* m_data[m_length] = c; m_length++; m_data[m_length] = '\0'; for each
\* character of the run: the characters, and the terminator after the last.
StoreRun(g, chars, i) ==
    LET count == RunLength(g.str, chars, i)
        begin == g.str.m_data + g.str.m_length
        stored == [a \in begin .. (begin + count) |->
                      IF a = begin + count THEN 0 ELSE chars[i + (a - begin)]]
    IN  IF \A a \in begin .. (begin + count) : ByteInHeap(g.heap, a)
        THEN [g EXCEPT !.heap.bytes = stored @@ @, !.str.m_length = @ + count]
        ELSE [g EXCEPT !.heap = Wild(@)]

\* append(const char* str) and append(char c) for each character of chars
\* from index i on; chars has the characters before the terminator.
RECURSIVE append_from(_, _, _)
append_from(r, chars, i) ==
    IF i > Len(chars) \/ r.heap.wild THEN {r}
    ELSE UNION { IF g.heap.wild THEN {g}
                 ELSE append_from(StoreRun(g, chars, i), chars,
                                  i + RunLength(g.str, chars, i)) :
                     g \in Then(IF r.str.m_data = 0 THEN _initialize(r) ELSE {r}, StringGrow) }

append(r, c) == append_from(r, <<c>>, 1)

append_str(states, chars) == Then(states, LAMBDA r : append_from(r, chars, 1))

\* String(const String& other)
StringCopy(r, other) ==
    IF other.m_data = 0 \/ other.m_length = 0 THEN {[r EXCEPT !.str = NullString]}
    ELSE { [heap |-> WriteByte(CopyBytes(a.heap, a.ptr, other.m_data, 0, other.m_length),
                               a.ptr + other.m_length, 0),
            hist |-> a.hist,
            str |-> [m_data |-> a.ptr, m_capacity |-> other.m_length + 1,
                     m_length |-> other.m_length]] :
               a \in {AllocCalled(r, other.m_length + 1, 1)} }

\* ~String()
StringDestroy(r) ==
    IF r.str.m_data = 0 THEN {r}
    ELSE { [heap |-> f.heap, hist |-> f.hist, str |-> NullString] :
               f \in FreeCalled(r, StringBuffer(r.str)) }

\* The 16-bit limb k of a 64-bit magnitude.
Limb(magnitude, k) ==
    NatOfBits({ b - 16 * k : b \in magnitude \cap ((16 * k) .. (16 * k + 15)) })

\* magnitude / 10 and magnitude % 10 of the unsigned 64-bit magnitude, by long
\* division over its four limbs, the highest first.
DividendBelow(magnitude, remainder_above, k) == remainder_above * 65536 + Limb(magnitude, k)

Dividend2(magnitude) == DividendBelow(magnitude, Limb(magnitude, 3) % 10, 2)

Dividend1(magnitude) == DividendBelow(magnitude, Dividend2(magnitude) % 10, 1)

Dividend0(magnitude) == DividendBelow(magnitude, Dividend1(magnitude) % 10, 0)

QuotientByTen(magnitude) ==
    ShiftLeft(ToBits(Limb(magnitude, 3) \div 10), 48)
        \cup ShiftLeft(ToBits(Dividend2(magnitude) \div 10), 32)
        \cup ShiftLeft(ToBits(Dividend1(magnitude) \div 10), 16)
        \cup ToBits(Dividend0(magnitude) \div 10)

RemainderByTen(magnitude) == Dividend0(magnitude) % 10

\* The digit loop of to_string and the loop that appends buffer[] backwards:
\* '0' + digit for every digit of the magnitude, the most significant first,
\* none for magnitude 0 and 20 for the largest magnitudes.
RECURSIVE DecimalDigits(_)
DecimalDigits(magnitude) ==
    IF magnitude = {} THEN <<>>
    ELSE DecimalDigits(QuotientByTen(magnitude)) \o <<48 + RemainderByTen(magnitude)>>

\* UnsignedT magnitude: the value itself, and 0 - value in unsigned
\* arithmetic for a negative value of a signed T.  value is the 64-bit word.
Magnitude(value, is_signed) ==
    IF is_signed /\ 63 \in value THEN Minus({}, value) ELSE value

\* The characters to_string appends: '0' for 0, and otherwise '-' for a negative
\* value of a signed T followed by the digits.
to_string_chars(value, is_signed) ==
    IF value = {} THEN <<48>>
    ELSE (IF is_signed /\ 63 \in value THEN <<45>> ELSE <<>>)
             \o DecimalDigits(Magnitude(value, is_signed))

\* to_string(T value) of a 64-bit T, signed or unsigned; value is the integer
\* the heap model uses for the word (a negative one stands for 2^64 + value
\* when T is unsigned).
to_string(r, value, is_signed) ==
    append_str({[r EXCEPT !.str = NullString]}, to_string_chars(ToBits(value), is_signed))

\* Uart16550::write(Rocinante::String str) is declared in sp/uart16550.h and
\* has no definition in src/: it puts the characters of str to the UART one at
\* a time, calls nothing of the heap and leaves str as it is.
write(r) == {r}

\* uart.write(to_string(value)) of a std::size_t or std::uint32_t value: the
\* String is the parameter of write and is destroyed when write returns.
WriteToString(states, value) ==
    Then(Then(Then(states, LAMBDA r : to_string(r, value, FALSE)), write), StringDestroy)

\* The heap of the kernel starts at a page boundary.
HeapBase == kPageSizeBytes

SIZE_MAX == 0 - 1

\* What the words of the region hold before Init: zeros or 0xFF bytes.
HeapFillInputs == {0, SIZE_MAX}

\* ------------------------------------------------------------------------
\* The walker configuration next to the software layout: a configuration is
\* computed for a VALEN, then the software indices of an address are taken.
\* ------------------------------------------------------------------------
WalkerValenInputs == 0 .. 64

\* Canonical addresses of both halves for a VALEN.
WalkerVirtualInputs(valen) ==
    { {}, 0 .. (valen - 2), {12, 22, 32} \cap (0 .. (valen - 2)),
      CanonicalHighHalfBase(valen), AllBits \ kPageOffsetMask,
      CanonicalHighHalfBase(valen) \cup ({13, 21, 35} \cap (0 .. (valen - 2))) }

Make4KiBPageWalkerConfig(address_bits) ==
    /\ walker' = [op |-> "Make4KiBPageWalkerConfig",
                  address_bits |-> address_bits,
                  config |-> Make4KiBPageWalkerConfigResult(address_bits)]
    /\ UNCHANGED <<pmmVars, histVars, last, cpucfg_address_bits, root_physical_address,
                   memory, raw_word, n_map, last_paging, hwVars, kernel_pc, kernel_locals,
                   sideVars>>

\* The indices the software walker takes from an address, one per level.
SoftwareIndices(virtual_address) ==
    /\ walker.op # "none"
    /\ walker' = [op |-> "IndexFromVirtualAddressAtLevel",
                  address_bits |-> walker.address_bits,
                  config |-> walker.config,
                  virtual_address |-> virtual_address,
                  level_count |->
                      LevelCountFromVirtualAddressBits(walker.address_bits.virtual_address_bits),
                  index |-> [level \in 0 .. (kMaxSupportedLevelCount - 1) |->
                                IndexFromVirtualAddressAtLevel(virtual_address, level)]]
    /\ UNCHANGED <<pmmVars, histVars, last, cpucfg_address_bits, root_physical_address,
                   memory, raw_word, n_map, last_paging, hwVars, kernel_pc, kernel_locals,
                   sideVars>>

NextWalker ==
    \/ \E valen \in WalkerValenInputs :
           Make4KiBPageWalkerConfig(AddressSpaceBits(valen, 48))
    \/ /\ walker.op # "none"
       /\ \E va \in WalkerVirtualInputs(walker.address_bits.virtual_address_bits) :
              SoftwareIndices(va)

SpecWalker == Init /\ [][NextWalker]_vars

\* ========================================================================
\* EnablePaging on its own: called with CSR.CRMD as firmware may leave it
\* ========================================================================
\* Fault model: PG is set by one write and DA cleared by a second.
EnablePagingWritesOneBitAtATime(crmd_read) ==
    <<crmd_read \cup kPagingEnable, (crmd_read \cup kPagingEnable) \ kDirectAddressingEnable>>

\* The values EnablePaging writes to CSR.CRMD, in order, when its ReadCsr
\* returned crmd_read.
EnablePagingWrites(crmd_read) ==
    <<(crmd_read \cup kPagingEnable) \ kDirectAddressingEnable>>

\* CSR.CRMD after all of them.
EnablePagingLeaves(crmd_read) ==
    EnablePagingWrites(crmd_read)[Len(EnablePagingWrites(crmd_read))]

\* CRMD: PLV [1:0], IE [2], DA [3], PG [4], DATF [6:5], DATM [8:7], WE [9].
CrmdOtherBits == {0, 1, 2, 5, 6, 7, 8, 9}

CrmdInputs == { kDirectAddressingEnable \cup other : other \in SUBSET CrmdOtherBits }

InitEnablePaging ==
    /\ PmmAndPagingIdle
    /\ BringupIdle
    /\ crmd \in CrmdInputs
    /\ csr = [pwcl |-> {}, pwch |-> {}, pgdl |-> {}, pgdh |-> {}]
    /\ csr_writes = {}

CallEnablePaging ==
    /\ crmd' = EnablePagingLeaves(crmd)
    /\ csr_writes' = csr_writes \cup {"CRMD"}
    /\ last_paging' = [op |-> "EnablePaging", ok |-> TRUE, read |-> crmd,
                       writes |-> EnablePagingWrites(crmd)]
    /\ UNCHANGED <<pmmVars, histVars, last, cpucfg_address_bits, root_physical_address,
                   memory, raw_word, n_map, csr, bringupVars>>

NextEnablePaging == CallEnablePaging

SpecEnablePaging == InitEnablePaging /\ [][NextEnablePaging]_vars

\* ========================================================================
\* MapRange4KiB (paging.cpp)
\* ========================================================================
\* MapPage4KiB on a state st = [mem, pmm, pages] of a longer computation: r is
\* what the call returns, and the pages it allocated join those of st.
MapPageJoined(st, r) ==
    [ok |-> r.ok, st |-> [r.st EXCEPT !.pages = st.pages \cup r.st.pages]]

MapPageOn(st, root, virtual_address, physical_address, permissions, address_bits) ==
    MapPageJoined(st, MapPage4KiBResult(st.mem, st.pmm, root, virtual_address,
                                        physical_address, permissions, address_bits))

RECURSIVE MapRangeLoop(_, _, _, _, _, _, _, _)
\* The body of the loop after its MapPage4KiB call returned r.
MapRangeLoopBody(r, root, virtual_base, physical_base, offset, size_bytes, permissions, address_bits) ==
    IF ~r.ok THEN [ok |-> FALSE, st |-> r.st]
    ELSE MapRangeLoop(r.st, root, virtual_base, physical_base, offset + kPageSizeBytes,
                      size_bytes, permissions, address_bits)

MapRangeLoop(st, root, virtual_base, physical_base, offset, size_bytes, permissions, address_bits) ==
    IF offset >= size_bytes THEN [ok |-> TRUE, st |-> st]
    ELSE MapRangeLoopBody(MapPageOn(st, root, Plus(virtual_base, ToBits(offset)),
                                    Plus(physical_base, ToBits(offset)), permissions,
                                    address_bits),
                          root, virtual_base, physical_base, offset, size_bytes,
                          permissions, address_bits)

\* The checks of MapRange4KiB, layout being BuildLayout(address_bits).
MapRangeIsValid(layout, virtual_base, physical_base, size_bytes) ==
    /\ layout.ok
    /\ IsPageAligned(virtual_base)
    /\ IsPageAligned(physical_base)
    /\ size_bytes % kPageSizeBytes = 0
    /\ ValidateVirtualAddress(virtual_base, layout)
    /\ ValidatePhysicalAddress(physical_base, layout)

MapRange4KiBResult(st, root, virtual_base, physical_base, size_bytes, permissions, address_bits) ==
    IF ~MapRangeIsValid(BuildLayout(address_bits), virtual_base, physical_base, size_bytes)
    THEN [ok |-> FALSE, st |-> st]
    ELSE MapRangeLoop(st, root, virtual_base, physical_base, 0, size_bytes, permissions,
                      address_bits)

\* ========================================================================
\* kernel_main: the paging bring-up (kernel.cpp, ROCINANTE_PAGING_BRINGUP)
\* ========================================================================
UART_BASE == {5, 6, 7, 8} \cup (21 .. 28)       \* 0x1fe001e0

kSysconBase == {2, 3, 4, 17, 18, 19, 28}        \* 0x100e001c

kHigherHalfStackGuardPageCount == 1

kHigherHalfStackMappedPageCount == 4

kHeapPageCount == 16

kBootstrapPhysMapSizeBytes == 16 * 1024 * 1024

kernel_permissions == PagePermissions("ReadWrite", "Executable", CoherentCached, TRUE)

mmio_permissions == PagePermissions("ReadWrite", "NoExecute", StrongUncached, TRUE)

stack_permissions == PagePermissions("ReadWrite", "NoExecute", CoherentCached, TRUE)

physmap_permissions == PagePermissions("ReadWrite", "NoExecute", CoherentCached, TRUE)

\* The PALEN check of kernel_main.
PalenIsEncodable(physical_address_bits) ==
    ~(physical_address_bits < kPageShiftBits
          \/ physical_address_bits > kMaxEncodablePhysicalAddressBits)

\* (x + kPageSizeBytes - 1) & ~(kPageSizeBytes - 1) on a 64-bit word.
RoundUpToPage(word) == Plus(word, kPageOffsetMask) \ kPageOffsetMask

\* The runs of kernel_main: what CPUCFG reports, whether a device tree was
\* found and parsed, the boot memory map parsed from it, and where the kernel
\* image and the device tree lie.
KernelRun(valen, palen, dtb_found, parsed, regions, a) ==
    [valen |-> valen, palen |-> palen, dtb_found |-> dtb_found, parsed |-> parsed,
     regions |-> regions, arg |-> a]

KernelImage == InitArg(Page(0), Page(1) + 2048, Page(3), kPageSizeBytes)

KernelRam(pages) == <<Region(Page(0), pages * kPageSizeBytes, Usable)>>

KernelRuns ==
    { KernelRun(48, 48, TRUE, TRUE, KernelRam(pages), KernelImage) :
          pages \in {4, 5, 6, 8, 10, 12, 14, 16, 24, 32, 36, 40} }
        \cup { KernelRun(bits[1], bits[2], TRUE, TRUE, KernelRam(40), KernelImage) :
                   bits \in { <<48, 62>>, <<48, 11>>, <<48, 12>>, <<48, 28>>, <<60, 48>>,
                              <<40, 48>>, <<39, 44>>, <<12, 48>>, <<256, 48>> } }
        \cup { KernelRun(48, 48, FALSE, FALSE, <<>>, NoKernelNoDtb),
               KernelRun(48, 48, TRUE, FALSE, <<>>, KernelImage),
               KernelRun(48, 48, TRUE, TRUE, <<Rsv1>>, KernelImage) }

NoKernelLocals ==
    [identity_ok |-> FALSE, alias_ok |-> FALSE, uart_ok |-> FALSE, syscon_ok |-> FALSE,
     higher_half_stack_top |-> {}, heap_ok |-> FALSE, physmap_ok |-> FALSE,
     physmap_size_bytes |-> 0, config |-> NoWalkerConfig, reached |-> {}]

InitKernel ==
    /\ m_bitmap_physical_base = 0
    /\ m_bitmap_size_bytes = 0
    /\ m_tracked_physical_base = 0
    /\ m_tracked_physical_limit = 0
    /\ m_page_count = 0
    /\ m_free_page_count = 0
    /\ m_next_search_index = 0
    /\ m_initialized = FALSE
    /\ bitmap = {}
    /\ init_in = NoInit
    /\ initial_free = 0
    /\ allocated = {}
    /\ n_alloc = 0
    /\ n_free = 0
    /\ reserve_called = FALSE
    /\ reserved_pages = {}
    /\ freed_foreign = FALSE
    /\ last = Call("none", 0, 0, FALSE, 0)
    /\ root_physical_address = {}
    /\ memory = <<>>
    /\ raw_word = {}
    /\ n_map = 0
    /\ last_paging = NoPagingCall
    /\ HwAtBoot
    /\ walker = NoWalkerCall
    /\ SideIdle
    /\ kernel_pc = "start"
    /\ \E run \in KernelRuns :
           /\ cpucfg_address_bits = AddressSpaceBits(run.valen, run.palen)
           /\ kernel_locals = [NoKernelLocals EXCEPT !.reached = {"start"}] @@ [boot |-> run]

\* static_cast<std::uint8_t> of the CPUCFG values
KernelAddressBits ==
    AddressSpaceBits(cpucfg_address_bits.virtual_address_bits % 256,
                     cpucfg_address_bits.physical_address_bits % 256)

KernelBase == ToBits(init_in.kernel_physical_base)

map_size_rounded ==
    AlignUp(init_in.kernel_physical_end - init_in.kernel_physical_base, kPageSizeBytes)

kernel_higher_half_base == KernelHigherHalfBase(KernelAddressBits.virtual_address_bits)

KernelSt == [mem |-> memory, pmm |-> PmmNow, pages |-> {}]

\* What every step of kernel_main leaves alone, and where it goes next.
KernelGoes(next_pc, locals) ==
    /\ kernel_pc' = next_pc
    /\ kernel_locals' = [locals EXCEPT !.reached = @ \cup {next_pc}]
    /\ UNCHANGED <<cpucfg_address_bits, raw_word, n_map, last_paging, walker, sideVars>>

KernelPmmSame == UNCHANGED <<pmmVars, histVars, last>>

\* The effect of the paging and PMM calls of a step.
KernelBecomes(st) ==
    /\ PmmBecomes(st.pmm, st.pages)
    /\ memory' = st.mem
    /\ UNCHANGED <<root_physical_address, hwVars>>

\* Device tree lookup, boot memory map, PMM initialization.
KernelInitializePmm ==
    /\ kernel_pc = "start"
    /\ IF kernel_locals.boot.dtb_found /\ kernel_locals.boot.parsed
       THEN \E call \in {InitializeCall(BuildMap(<<>>, kernel_locals.boot.regions, 1),
                                        kernel_locals.boot.arg)} :
                /\ InitializePmmState(call)
                /\ KernelGoes(IF call.r.ok THEN "check_palen" ELSE "halt", kernel_locals)
       ELSE /\ KernelPmmSame
            /\ KernelGoes("halt", kernel_locals)
    /\ UNCHANGED <<memory, root_physical_address, hwVars>>

KernelCheckPalen ==
    /\ kernel_pc = "check_palen"
    /\ KernelGoes(IF PalenIsEncodable(cpucfg_address_bits.physical_address_bits)
                  THEN "allocate_root" ELSE "halt", kernel_locals)
    /\ KernelPmmSame
    /\ UNCHANGED <<memory, root_physical_address, hwVars>>

KernelAllocateRoot ==
    /\ kernel_pc = "allocate_root"
    /\ \E page \in {AllocatePageResult(PmmNow)} :
           IF ~page.ok
           THEN /\ KernelPmmSame
                /\ UNCHANGED <<memory, root_physical_address>>
                /\ KernelGoes("halt", kernel_locals)
           ELSE \E root_physical_base \in {ToBits(page.value)} :
                    /\ PmmBecomes(page.pmm, {page.value})
                    /\ memory' = ZeroPage(memory, root_physical_base)
                    /\ root_physical_address' = root_physical_base
                    /\ KernelGoes("map_kernel_identity", kernel_locals)
    /\ UNCHANGED hwVars

KernelMapKernelIdentity ==
    /\ kernel_pc = "map_kernel_identity"
    /\ \E r \in {MapRange4KiBResult(KernelSt, root_physical_address, KernelBase, KernelBase,
                                map_size_rounded, kernel_permissions, KernelAddressBits)} :
        /\ KernelBecomes(r.st)
        /\ KernelGoes(IF r.ok THEN "map_kernel_alias" ELSE "halt",
                      [kernel_locals EXCEPT !.identity_ok = r.ok])

KernelMapHigherHalfAlias ==
    /\ kernel_pc = "map_kernel_alias"
    /\ \E r \in {MapRange4KiBResult(KernelSt, root_physical_address, kernel_higher_half_base,
                                KernelBase, map_size_rounded, kernel_permissions,
                                KernelAddressBits)} :
        /\ KernelBecomes(r.st)
        /\ KernelGoes("map_uart", [kernel_locals EXCEPT !.alias_ok = r.ok])

uart_page_base == UART_BASE \ kPageOffsetMask

syscon_page_base == kSysconBase \ kPageOffsetMask

KernelMapUart ==
    /\ kernel_pc = "map_uart"
    /\ \E r \in {MapRange4KiBResult(KernelSt, root_physical_address, uart_page_base,
                                uart_page_base, kPageSizeBytes, mmio_permissions,
                                KernelAddressBits)} :
        /\ KernelBecomes(r.st)
        /\ KernelGoes("map_syscon", [kernel_locals EXCEPT !.uart_ok = r.ok])

KernelMapSyscon ==
    /\ kernel_pc = "map_syscon"
    /\ \E r \in {MapRange4KiBResult(KernelSt, root_physical_address, syscon_page_base,
                                syscon_page_base, kPageSizeBytes, mmio_permissions,
                                KernelAddressBits)} :
        /\ KernelBecomes(r.st)
        /\ KernelGoes("map_stack", [kernel_locals EXCEPT !.syscon_ok = r.ok])

\* The loops that allocate a page and map it at virtual_base + i * 4096, for
\* the stack (through MapRange4KiB) and for the heap (through MapPage4KiB).
RECURSIVE AllocateAndMapLoop(_, _, _, _, _, _, _)
\* The rest of an iteration after its mapping call returned r.
AllocateAndMapNext(r, i, page_count, root, virtual_base, through_range, address_bits) ==
    IF ~r.ok THEN [ok |-> FALSE, st |-> r.st]
    ELSE AllocateAndMapLoop(r.st, i + 1, page_count, root, virtual_base, through_range,
                            address_bits)

\* The mapping call of an iteration, on the state in which the page is taken.
AllocateAndMapCall(taken, root, page_virtual, page_physical, through_range, address_bits) ==
    IF through_range
    THEN MapRange4KiBResult(taken, root, page_virtual, page_physical, kPageSizeBytes,
                            stack_permissions, address_bits)
    ELSE MapPageOn(taken, root, page_virtual, page_physical, stack_permissions,
                   address_bits)

\* An iteration after its AllocatePage call returned page.
AllocateAndMapPage(st, page, i, page_count, root, virtual_base, through_range, address_bits) ==
    IF ~page.ok THEN [ok |-> FALSE, st |-> st]
    ELSE AllocateAndMapNext(
             AllocateAndMapCall([st EXCEPT !.pmm = page.pmm,
                                           !.pages = st.pages \cup {page.value}],
                                root, Plus(virtual_base, ToBits(i * kPageSizeBytes)),
                                ToBits(page.value), through_range, address_bits),
             i, page_count, root, virtual_base, through_range, address_bits)

AllocateAndMapLoop(st, i, page_count, root, virtual_base, through_range, address_bits) ==
    IF i >= page_count THEN [ok |-> TRUE, st |-> st]
    ELSE AllocateAndMapPage(st, AllocatePageResult(st.pmm), i, page_count, root,
                            virtual_base, through_range, address_bits)

stack_guard_virtual_base ==
    RoundUpToPage(Plus(kernel_higher_half_base, ToBits(map_size_rounded)))

\* Fault model: the stack starts where the guard page should be.
stack_virtual_base_without_guard == stack_guard_virtual_base

stack_virtual_base ==
    Plus(stack_guard_virtual_base, ToBits(kHigherHalfStackGuardPageCount * kPageSizeBytes))

stack_virtual_top ==
    Plus(stack_virtual_base, ToBits(kHigherHalfStackMappedPageCount * kPageSizeBytes))

\* The root the walker uses for a virtual address: PGDH for the upper half,
\* PGDL for the lower half.
ProgrammedRoot(virtual_address) == IF 63 \in virtual_address THEN csr.pgdh ELSE csr.pgdl

\* Translate under the programmed root.
TranslateProgrammed(virtual_address) ==
    TranslateResult(memory, ProgrammedRoot(virtual_address), virtual_address,
                    KernelAddressBits)

\* The guard page and the pages of the higher-half stack above it.
GuardPage == stack_guard_virtual_base

StackPage(i) == Plus(stack_virtual_base, ToBits(i * kPageSizeBytes))

StackPages == { StackPage(i) : i \in 0 .. (kHigherHalfStackMappedPageCount - 1) }

KernelMapStack ==
    /\ kernel_pc = "map_stack"
    /\ \E r \in {AllocateAndMapLoop(KernelSt, 0, kHigherHalfStackMappedPageCount,
                                    root_physical_address, stack_virtual_base, TRUE,
                                    KernelAddressBits)} :
           /\ KernelBecomes(r.st)
           /\ KernelGoes("map_heap",
                         [kernel_locals EXCEPT !.higher_half_stack_top =
                                                   IF r.ok THEN stack_virtual_top ELSE {}])

KernelMapHeap ==
    /\ kernel_pc = "map_heap"
    /\ IF kernel_locals.higher_half_stack_top = {}
       THEN /\ KernelPmmSame
            /\ UNCHANGED <<memory, root_physical_address, hwVars>>
            /\ KernelGoes("map_physmap", kernel_locals)
       ELSE \E r \in {AllocateAndMapLoop(KernelSt, 0, kHeapPageCount,
                                         root_physical_address,
                                         RoundUpToPage(kernel_locals.higher_half_stack_top),
                                         FALSE, KernelAddressBits)} :
                /\ KernelBecomes(r.st)
                /\ KernelGoes("map_physmap", [kernel_locals EXCEPT !.heap_ok = r.ok])

physmap_size_bytes ==
    IF UGt(m_tracked_physical_limit, m_tracked_physical_base)
    THEN LET tracked_size_bytes == m_tracked_physical_limit - m_tracked_physical_base
         IN  AlignDown(IF ULt(tracked_size_bytes, kBootstrapPhysMapSizeBytes)
                       THEN tracked_size_bytes ELSE kBootstrapPhysMapSizeBytes,
                       kPageSizeBytes)
    ELSE 0

physmap_virtual_base ==
    ToPhysMapVirtual(ToBits(m_tracked_physical_base), KernelAddressBits.virtual_address_bits)

KernelMapPhysmap ==
    /\ kernel_pc = "map_physmap"
    /\ \E size_bytes \in {physmap_size_bytes} :
           IF size_bytes = 0
           THEN /\ KernelPmmSame
                /\ UNCHANGED <<memory, root_physical_address, hwVars>>
                /\ KernelGoes("make_walker_config", kernel_locals)
           ELSE \E r \in {MapRange4KiBResult(KernelSt, root_physical_address,
                                             physmap_virtual_base,
                                             ToBits(m_tracked_physical_base), size_bytes,
                                             physmap_permissions, KernelAddressBits)} :
                    /\ KernelBecomes(r.st)
                    /\ KernelGoes("make_walker_config",
                                  [kernel_locals EXCEPT !.physmap_ok = r.ok,
                                                        !.physmap_size_bytes = size_bytes])

\* The probes (which only read) and Make4KiBPageWalkerConfig.
KernelMakeWalkerConfig ==
    /\ kernel_pc = "make_walker_config"
    /\ KernelPmmSame
    /\ UNCHANGED <<memory, root_physical_address, hwVars>>
    /\ \E config_or \in {Make4KiBPageWalkerConfigResult(KernelAddressBits)} :
           KernelGoes(IF config_or.ok THEN "configure_walker" ELSE "halt",
                      [kernel_locals EXCEPT !.config = config_or])

\* WriteCsr is "csrwr %0, %1" with the value as an input-only operand, while
\* csrwr exchanges the register with the CSR.  The two writes of the root use
\* the same value: the second one takes the register as the compiler left
\* it, which holds the root again or what PGDH held before the first write.
ConfigurePageTableWalkerPgdl(root, pgdh_before) == {root, pgdh_before}

\* ConfigurePageTableWalker(root, config)
ConfigurePageTableWalker ==
    /\ kernel_pc = "configure_walker"
    /\ \E pgdl \in ConfigurePageTableWalkerPgdl(root_physical_address, csr.pgdh) :
           csr' = [pwcl |-> kernel_locals.config.pwcl, pwch |-> kernel_locals.config.pwch,
                   pgdh |-> root_physical_address, pgdl |-> pgdl]
    /\ csr_writes' = csr_writes \cup {"PWCL", "PWCH", "PGDH", "PGDL"}
    /\ UNCHANGED <<crmd, memory, root_physical_address>>
    /\ KernelPmmSame
    /\ KernelGoes("enable_paging", kernel_locals)

\* InvalidateAllTlbEntries (the model keeps no TLB) and EnablePaging.
EnablePaging ==
    /\ kernel_pc = "enable_paging"
    /\ crmd' = EnablePagingLeaves(crmd)
    /\ csr_writes' = csr_writes \cup {"CRMD"}
    /\ UNCHANGED <<csr, memory, root_physical_address>>
    /\ KernelPmmSame
    /\ KernelGoes("continuation", kernel_locals)

kHeapSizeBytes == kHeapPageCount * kPageSizeBytes

\* g_paging_bringup_heap_virtual_base, set when every heap page was mapped
g_paging_bringup_heap_virtual_base ==
    IF kernel_locals.heap_ok THEN RoundUpToPage(kernel_locals.higher_half_stack_top) ELSE {}

\* The heap handoff of the continuation: InitHeapAfterPaging, the two
\* statistics written through to_string, Alloc(64, 16) and Free of what it
\* returned.  The heap's integer HeapBase stands for heap_base.
HeapHandoff(heap_base, heap_size_bytes, fill) ==
    LET inited ==
            [heap |-> HeapInit(Minus(heap_base, ToBits(HeapBase)), HeapBase,
                               heap_size_bytes, fill),
             hist |-> [op |-> "Init", calls |-> 0, live |-> {}, size |-> heap_size_bytes,
                       alignment |-> 0, ptr |-> HeapBase],
             str |-> NullString]
        total_written == Then({inited}, LAMBDA r : WriteToString({r}, TotalBytes(r.heap)))
        free_written ==
            Then(total_written,
                 LAMBDA r : IF FreeBytes(r.heap).end = "returns"
                            THEN WriteToString({r}, FreeBytes(r.heap).total)
                            ELSE {[r EXCEPT !.heap = Wild(@)]})
    IN  Then(free_written,
             LAMBDA r : UNION { IF p.ptr = 0
                                THEN {[heap |-> p.heap, hist |-> p.hist, str |-> r.str]}
                                ELSE { [heap |-> f.heap, hist |-> f.hist, str |-> r.str] :
                                           f \in FreeCalled(p, [ptr |-> p.ptr, size |-> 64,
                                                                alignment |-> 16]) } :
                                    p \in {AllocCalled(r, 64, 16)} })

\* "Hello, Rocinante!\n"
kBannerHello ==
    <<72, 101, 108, 108, 111, 44, 32, 82, 111, 99, 105, 110, 97, 110, 116, 101, 33, 10>>

\* "Don the LoongArch64 armor and prepare to ride!\n\n"
kBannerDon ==
    <<68, 111, 110, 32, 116, 104, 101, 32, 76, 111, 111, 110, 103, 65, 114, 99, 104, 54, 52,
      32, 97, 114, 109, 111, 114, 32, 97, 110, 100, 32, 112, 114, 101, 112, 97, 114, 101, 32,
      116, 111, 32, 114, 105, 100, 101, 33, 10, 10>>

\* The banner of the continuation: String info and its two appends,
\* uart.write(info) with its copy of info, and VALEN and PALEN written
\* through to_string.  info is alive at halt().
ContinuationBanner(states, virtual_address_bits, physical_address_bits) ==
    LET info == append_str(append_str({[r EXCEPT !.str = NullString] : r \in states},
                                      kBannerHello),
                           kBannerDon)
        written == Then(Then(Then(info, LAMBDA r : StringCopy(r, r.str)), write),
                        StringDestroy)
    IN  WriteToString(WriteToString(written, virtual_address_bits), physical_address_bits)

\* The jump to PagingBringup_HigherHalfStackContinuation, which re-points
\* the heap at the pages mapped for it, writes the banner and ends in
\* halt().  Without the handoff the Strings are made on the heap of
\* InitEarly, which is not modelled.
KernelContinuation ==
    /\ kernel_pc = "continuation"
    /\ KernelPmmSame
    /\ UNCHANGED <<memory, root_physical_address, hwVars>>
    /\ kernel_pc' = "halted"
    /\ kernel_locals' = [kernel_locals EXCEPT !.reached = @ \cup {"halted"}]
    /\ UNCHANGED <<cpucfg_address_bits, raw_word, n_map, last_paging, walker,
                   trapVars, cpucfgVars, bootMapVars, layout_call>>
    /\ IF g_paging_bringup_heap_virtual_base # {}
       THEN \E fill \in HeapFillInputs :
                \E r \in ContinuationBanner(
                              HeapHandoff(g_paging_bringup_heap_virtual_base,
                                          kHeapSizeBytes, fill),
                              cpucfg_address_bits.virtual_address_bits,
                              cpucfg_address_bits.physical_address_bits) :
                    /\ heap' = r.heap
                    /\ heap_hist' = r.hist
       ELSE UNCHANGED heapVars

\* The banner after the bring-up block, and halt().
KernelHalt ==
    /\ kernel_pc = "halt"
    /\ KernelPmmSame
    /\ UNCHANGED <<memory, root_physical_address, hwVars>>
    /\ KernelGoes("halted", kernel_locals)

\* ========================================================================
\* Traps and the timer (trap.h, trap.cpp, kernel.cpp, testing/test.cpp)
\* ========================================================================
InterruptEnable == {2}                  \* CRMD.IE

TimerInterruptLine == 11

TimerInterruptMaskBit == {TimerInterruptLine}

Enable == {0}                           \* TCFG.EN

InitialValueShift == 2

kInstructionSizeBytes == 4

kExceptionCodeInterrupt == {}           \* 0x0

kExceptionCodeBreak == {2, 3}           \* 0x0c

kTimerInterruptPendingBit == {11}

kTimerInterruptLineBit == {11}

kAnyExceptionSubcode == AllBits         \* ~0ull

ExceptionCodeFromExceptionStatus(exception_status) ==
    ShiftRight(exception_status, 16) \cap (0 .. 5)

ExceptionSubCodeFromExceptionStatus(exception_status) ==
    ShiftRight(exception_status, 22) \cap (0 .. 8)

InterruptStatusFromExceptionStatus(exception_status) ==
    exception_status \cap (0 .. 14)

\* The CSRs as one record c: CRMD with the CSRs of trap_csr.
TrapCsrs == [crmd |-> crmd] @@ trap_csr

TrapCsrsBecome(c) ==
    /\ crmd' = c.crmd
    /\ trap_csr' = [f \in DOMAIN trap_csr |-> c[f]]

\* csrwr to CSR.TCFG: the timer is loaded with the initial value and counts
\* if EN is set, and stops otherwise.
WriteTimerConfiguration(c, value) ==
    [c EXCEPT !.tcfg = value,
              !.timer_running = (value \cap Enable # {}),
              !.timer_value = NatOfBits(ShiftRight(value, InitialValueShift))]

\* Fault model: the write to TINTCLR has no effect.
KeepPendingTimerInterruptInCsr(c) == c

\* csrwr of 1 to CSR.TINTCLR: the pending timer interrupt is cleared.
ClearPendingTimerInterruptInCsr(c) == [c EXCEPT !.estat = @ \ {TimerInterruptLine}]

EnableInterrupts(c) == [c EXCEPT !.crmd = @ \cup InterruptEnable]

DisableInterrupts(c) == [c EXCEPT !.crmd = @ \ InterruptEnable]

MaskAllInterruptLines(c) == [c EXCEPT !.ecfg = {}]

UnmaskTimerInterruptLine(c) == [c EXCEPT !.ecfg = @ \cup TimerInterruptMaskBit]

\* Fault model: stopping the timer also sets CRMD.IE.
StopTimerEnablingInterrupts(c) == EnableInterrupts(WriteTimerConfiguration(c, {}))

StopTimer(c) == WriteTimerConfiguration(c, {})

ClearTimerInterrupt(c) == ClearPendingTimerInterruptInCsr(c)

StartOneShotTimerTicks(c, ticks) ==
    WriteTimerConfiguration(ClearPendingTimerInterruptInCsr(StopTimer(c)),
                            ShiftLeft(ticks, InitialValueShift) \cup Enable)

\* The hardware on an exception or interrupt: PRMD.PIE takes CRMD.IE, CRMD.IE
\* is cleared, ERA takes the pc, ESTAT the cause, BADV the faulting address.
ExceptionEntry(c, pc, exception_code, exception_subcode, bad_virtual_address) ==
    [c EXCEPT !.prmd_pie = (c.crmd \cap InterruptEnable # {}),
              !.crmd = @ \ InterruptEnable,
              !.era = pc,
              !.estat = InterruptStatusFromExceptionStatus(@)
                            \cup ShiftLeft(exception_code, 16)
                            \cup ShiftLeft(exception_subcode, 22),
              !.badv = bad_virtual_address]

\* The hardware on ERTN: CRMD.IE takes PRMD.PIE (execution goes on at ERA).
ExceptionReturn(c) ==
    [c EXCEPT !.crmd = IF c.prmd_pie THEN @ \cup InterruptEnable ELSE @ \ InterruptEnable]

\* The TrapFrame the entry stub saves (its CSR snapshots).
SavedTrapFrame(c) ==
    [exception_return_address |-> c.era,
     exception_status |-> c.estat,
     bad_virtual_address |-> c.badv,
     current_mode_information |-> c.crmd,
     previous_mode_information |-> IF c.prmd_pie THEN InterruptEnable ELSE {},
     exception_configuration |-> c.ecfg]

\* What a trap hook decides: whether the handler returns, the branch it took,
\* the frame and the test globals it leaves.
TrapDecision(returns, branch, tf, test) ==
    [returns |-> returns, branch |-> branch, tf |-> tf, test |-> test]

SkipInstruction(tf) ==
    [tf EXCEPT !.exception_return_address = Plus(@, ToBits(kInstructionSizeBytes))]

\* Fault model: BREAK is counted but the return address is left on the break.
HandleTrapNotSkipping(test, tf, exception_code, exception_subcode, interrupt_status) ==
    IF exception_code = kExceptionCodeBreak
    THEN TrapDecision(TRUE, "break", tf,
                      [test EXCEPT !.g_break_trap_count = Plus(@, {0}) \cap (0 .. 31)])
    ELSE TrapDecision(FALSE, "none", tf, test)

\* Fault model: every event is consumed.
HandleTrapConsumingAll(test, tf, exception_code, exception_subcode, interrupt_status) ==
    TrapDecision(TRUE, "expected", SkipInstruction(tf), test)

\* Testing::HandleTrap.  The CSR writes of its timer branch (ClearTimerInterrupt,
\* StopTimer) are the handler's steps; the globals are what it leaves.
HandleTrap(test, tf, exception_code, exception_subcode, interrupt_status) ==
    IF /\ exception_code = kExceptionCodeInterrupt
       /\ interrupt_status \cap kTimerInterruptPendingBit # {}
    THEN TrapDecision(TRUE, "timer", tf, [test EXCEPT !.g_timer_interrupt_observed = TRUE])
    ELSE IF exception_code = kExceptionCodeBreak
    THEN TrapDecision(TRUE, "break", SkipInstruction(tf),
                      [test EXCEPT !.g_break_trap_count = Plus(@, {0}) \cap (0 .. 31)])
    ELSE IF /\ test.g_expected_trap_armed
            /\ exception_code = test.g_expected_exception_code
            /\ \/ test.g_expected_exception_subcode = kAnyExceptionSubcode
               \/ exception_subcode = test.g_expected_exception_subcode
    THEN TrapDecision(TRUE, "expected", SkipInstruction(tf),
                      [test EXCEPT !.g_observed_exception_code = exception_code,
                                   !.g_observed_exception_subcode = exception_subcode,
                                   !.g_observed_era = tf.exception_return_address,
                                   !.g_observed_badv = tf.bad_virtual_address,
                                   !.g_expected_trap_observed = TRUE,
                                   !.g_expected_trap_armed = FALSE])
    ELSE TrapDecision(FALSE, "none", tf, test)

\* The branches of RocinanteTrapHandler in the build without ROCINANTE_TESTS.
KernelTrapDecision(test, tf, exception_code, exception_subcode, interrupt_status) ==
    IF /\ exception_code = kExceptionCodeInterrupt
       /\ interrupt_status \cap kTimerInterruptLineBit # {}
    THEN TrapDecision(TRUE, "timer", tf, test)
    ELSE IF exception_code = kExceptionCodeBreak
    THEN TrapDecision(TRUE, "break", SkipInstruction(tf), test)
    ELSE TrapDecision(FALSE, "none", tf, test)

\* RocinanteTrapHandler: decode ESTAT, then the test hook or the kernel's own
\* branches; returns = FALSE is the diagnostics dump followed by halt().
RocinanteTrapHandlerDecision(test, tf) ==
    IF test.build = "tests"
    THEN HandleTrap(test, tf,
                    ExceptionCodeFromExceptionStatus(tf.exception_status),
                    ExceptionSubCodeFromExceptionStatus(tf.exception_status),
                    InterruptStatusFromExceptionStatus(tf.exception_status))
    ELSE KernelTrapDecision(test, tf,
                            ExceptionCodeFromExceptionStatus(tf.exception_status),
                            ExceptionSubCodeFromExceptionStatus(tf.exception_status),
                            InterruptStatusFromExceptionStatus(tf.exception_status))

ResetTrapObservations(test) == TrapTestAtBoot(test.build)

ArmExpectedTrap(test, exception_code, exception_subcode) ==
    [test EXCEPT !.g_expected_exception_code = exception_code,
                 !.g_expected_exception_subcode = exception_subcode,
                 !.g_expected_trap_observed = FALSE,
                 !.g_expected_trap_armed = TRUE]

\* ---- the program, the hardware and the trap path as actions ----
nonSideVars == <<pmmVars, histVars, last, cpucfg_address_bits, root_physical_address,
                 memory, raw_word, n_map, last_paging, csr, csr_writes, walker,
                 kernel_pc, kernel_locals>>

nonTrapVars == <<nonSideVars, cpucfgVars, bootMapVars, libraryVars>>

\* ------------------------------------------------------------------------
\* The layout functions applied to a VALEN and a physical address
\* ------------------------------------------------------------------------
LayoutValenInputs ==
    {0, 1, 2, 8, 16, 24, 29, 30, 31, 32, 33, 34, 39, 40, 47, 48, 56, 62, 63, 64}

LayoutPhysicalInputs ==
    { {}, {12}, {30}, {3, 12, 20}, 12 .. 47, {63}, AllBits }

nonLayoutVars == <<nonSideVars, crmd, trapVars, cpucfgVars, bootMapVars, heapVars>>

CallToPhysMapVirtual(virtual_address_bits, physical_address) ==
    /\ layout_call' =
           [op |-> "ToPhysMapVirtual",
            virtual_address_bits |-> virtual_address_bits,
            physical_address |-> physical_address,
            canonical_high_half_base |-> CanonicalHighHalfBase(virtual_address_bits),
            physmap_base |-> PhysMapBase(virtual_address_bits),
            virtual_address |-> ToPhysMapVirtual(physical_address, virtual_address_bits),
            back |-> FromPhysMapVirtual(
                         ToPhysMapVirtual(physical_address, virtual_address_bits),
                         virtual_address_bits)]
    /\ UNCHANGED nonLayoutVars

NextLayout ==
    \E valen \in LayoutValenInputs, pa \in LayoutPhysicalInputs : CallToPhysMapVirtual(valen, pa)

SpecLayout == Init /\ [][NextLayout]_vars


\* ------------------------------------------------------------------------
\* The heap on its own: Init, then Alloc and Free of live pointers
\* ------------------------------------------------------------------------
\* heap_start and heap_size_bytes: an aligned region, an unaligned start, a
\* region below MinFreeBlockSize, a region that ends before the aligned start
HeapInitInputs ==
    { <<HeapBase, 256>>, <<HeapBase + 4, 200>>, <<HeapBase, 40>>, <<HeapBase + 1, 1>> }

HeapSizeInputs == {0, 1, 24, 100, SIZE_MAX, SIZE_MAX - 31}

HeapAlignmentInputs == {1, 24, 32, 64}

nonHeapVars == <<nonSideVars, crmd, trapVars, cpucfgVars, bootMapVars, layout_call>>

CallInit(heap_start, heap_size_bytes, fill) ==
    /\ heap_hist.op = "none"
    /\ heap' = HeapInit({}, heap_start, heap_size_bytes, fill)
    /\ heap_hist' = [op |-> "Init", calls |-> 0, live |-> {}, size |-> heap_size_bytes,
                     alignment |-> 0, ptr |-> heap_start]
    /\ UNCHANGED nonHeapVars

CallAlloc(size, alignment) ==
    /\ heap_hist.op # "none"
    /\ ~heap.wild
    /\ heap_hist.calls < MaxHeapAllocs
    /\ \E r \in {Alloc(heap, size, alignment)} :
           /\ heap' = r.heap
           /\ heap_hist' = HeapHistAlloc(heap_hist, r.ptr, size, alignment)
    /\ UNCHANGED nonHeapVars

CallFree(allocation) ==
    /\ ~heap.wild
    /\ allocation \in heap_hist.live
    /\ heap' \in Free(heap, allocation.ptr)
    /\ heap_hist' = HeapHistFree(heap_hist, allocation)
    /\ UNCHANGED nonHeapVars

NextHeap ==
    \/ \E input \in HeapInitInputs, fill \in HeapFillInputs :
           CallInit(input[1], input[2], fill)
    \/ \E size \in HeapSizeInputs, alignment \in HeapAlignmentInputs : CallAlloc(size, alignment)
    \/ \E allocation \in heap_hist.live : CallFree(allocation)

SpecHeap == Init /\ [][NextHeap]_vars

kExceptionCodeIne == {0, 2, 3}          \* 0xD

kExceptionCodePis == {1}                \* 0x2

\* Where the program's trapping instructions are: somewhere in the image, and
\* the last instruction slot of the address space.
TrapSites == { ToBits(4096), AllBits \ {0, 1} }

\* <<exception code, subcode, BADV>> of the faulting instructions of the program:
\* an undefined instruction, and a store to an unmapped page.
FaultInputs == { <<kExceptionCodeIne, {}, {}>>, <<kExceptionCodePis, {}, ToBits(8192)>> }

\* <<exception code, subcode>> the tests arm.
ArmInputs == { <<kExceptionCodeIne, kAnyExceptionSubcode>>, <<kExceptionCodePis, {0}>> }

TimerTicksInputs == { {}, {0} }

InitTrap ==
    /\ PmmAndPagingAtBoot
    /\ KernelIdle
    /\ \E build \in {"tests", "kernel"} : TrapIdle(build)
    /\ CpucfgIdle
    /\ BootMapIdle
    /\ LibraryIdle

TrapProgramRuns == trap_cpu.mode = "program"

\* A call of the program that only writes CSRs.
TrapCsrCall(c) ==
    /\ TrapProgramRuns
    /\ TrapCsrsBecome(c)
    /\ UNCHANGED <<trap_cpu, trap_frame, trap_test, trap_hist, nonTrapVars>>

CallEnableInterrupts == TrapCsrCall(EnableInterrupts(TrapCsrs))

CallDisableInterrupts == TrapCsrCall(DisableInterrupts(TrapCsrs))

CallMaskAllInterruptLines == TrapCsrCall(MaskAllInterruptLines(TrapCsrs))

CallUnmaskTimerInterruptLine == TrapCsrCall(UnmaskTimerInterruptLine(TrapCsrs))

CallStartOneShotTimerTicks(ticks) ==
    /\ TrapProgramRuns
    /\ trap_hist.timer_starts < MaxTimerStarts
    /\ TrapCsrsBecome(StartOneShotTimerTicks(TrapCsrs, ticks))
    /\ trap_hist' = [trap_hist EXCEPT !.timer_started = TRUE, !.timer_starts = @ + 1]
    /\ UNCHANGED <<trap_cpu, trap_frame, trap_test, nonTrapVars>>

CallResetTrapObservations ==
    /\ TrapProgramRuns
    /\ trap_test.build = "tests"
    /\ trap_test' = ResetTrapObservations(trap_test)
    /\ trap_hist' = [trap_hist EXCEPT !.breaks_since_reset = 0]
    /\ UNCHANGED <<crmd, trap_csr, trap_cpu, trap_frame, nonTrapVars>>

CallArmExpectedTrap(exception_code, exception_subcode) ==
    /\ TrapProgramRuns
    /\ trap_test.build = "tests"
    /\ trap_test' = ArmExpectedTrap(trap_test, exception_code, exception_subcode)
    /\ UNCHANGED <<crmd, trap_csr, trap_cpu, trap_frame, trap_hist, nonTrapVars>>

\* The hardware takes an exception or an interrupt at pc.
TrapTaken(pc, exception_code, exception_subcode, bad_virtual_address) ==
    /\ TrapCsrsBecome(ExceptionEntry(TrapCsrs, pc, exception_code, exception_subcode,
                                     bad_virtual_address))
    /\ trap_cpu' = [mode |-> "stub_entry", pc |-> pc, event |-> "none"]
    /\ UNCHANGED <<trap_frame, trap_test, nonTrapVars>>

\* The program executes break 0.
ExecuteBreak(site) ==
    /\ TrapProgramRuns
    /\ trap_hist.traps < MaxTraps
    /\ TrapTaken(site, kExceptionCodeBreak, {}, trap_csr.badv)
    /\ trap_hist' = [trap_hist EXCEPT !.traps = @ + 1, !.depth = @ + 1,
                                      !.breaks_since_reset = @ + 1]

\* The program executes an instruction that faults.
ExecuteFaulting(site, fault) ==
    /\ TrapProgramRuns
    /\ trap_hist.traps < MaxTraps
    /\ TrapTaken(site, fault[1], fault[2], fault[3])
    /\ trap_hist' = [trap_hist EXCEPT !.traps = @ + 1, !.depth = @ + 1]

\* The hardware on "st.d" at site to virtual_address in mapped address
\* translation mode: the walker follows the tables under the programmed root; a
\* page that is not mapped raises the page-invalid exception for stores with
\* BADV the address, and a mapped page takes the store (the data pages are not
\* part of the state) and execution goes on behind the instruction.
StoreDoubleword(site, virtual_address) ==
    /\ IsMappedAddressTranslationMode
    /\ TrapProgramRuns
    /\ IF TranslateProgrammed(virtual_address).ok
       THEN /\ trap_cpu' = [trap_cpu EXCEPT !.pc = Plus(site, ToBits(4))]
            /\ UNCHANGED <<crmd, trap_csr, trap_frame, trap_test, trap_hist, nonTrapVars>>
       ELSE /\ trap_hist.traps < MaxTraps
            /\ TrapTaken(site, kExceptionCodePis, {}, virtual_address)
            /\ trap_hist' = [trap_hist EXCEPT !.traps = @ + 1, !.depth = @ + 1]

\* The store instruction of the probe is in the kernel image; the model puts
\* it in the first instruction slot of the higher-half alias.
StoreSite == kernel_higher_half_base

\* After the bring-up a store probes the first byte of the guard page or of a
\* stack page.
StoreInputs == {GuardPage} \cup StackPages

KernelStore(virtual_address) ==
    /\ kernel_pc = "halted"
    /\ StoreDoubleword(StoreSite, virtual_address)

NextKernel ==
    \/ KernelInitializePmm
    \/ KernelCheckPalen
    \/ KernelAllocateRoot
    \/ KernelMapKernelIdentity
    \/ KernelMapHigherHalfAlias
    \/ KernelMapUart
    \/ KernelMapSyscon
    \/ KernelMapStack
    \/ KernelMapHeap
    \/ KernelMapPhysmap
    \/ KernelMakeWalkerConfig
    \/ ConfigurePageTableWalker
    \/ EnablePaging
    \/ KernelContinuation
    \/ KernelHalt
    \/ \E virtual_address \in StoreInputs : KernelStore(virtual_address)

SpecKernel == InitKernel /\ [][NextKernel]_vars


\* The timer counts down; at zero it raises its interrupt line and, being
\* one-shot, stops.
TimerTick ==
    /\ trap_csr.timer_running
    /\ trap_csr' = IF trap_csr.timer_value > 0
                   THEN [trap_csr EXCEPT !.timer_value = @ - 1]
                   ELSE [trap_csr EXCEPT !.timer_running = FALSE,
                                         !.estat = @ \cup {TimerInterruptLine}]
    /\ UNCHANGED <<crmd, trap_cpu, trap_frame, trap_test, trap_hist, nonTrapVars>>

\* An interrupt is taken whenever CRMD.IE is set and a pending line is
\* unmasked, whatever the CPU is executing.
InterruptPending ==
    /\ crmd \cap InterruptEnable # {}
    /\ InterruptStatusFromExceptionStatus(trap_csr.estat) \cap trap_csr.ecfg # {}

InterruptEntry ==
    /\ InterruptPending
    /\ TrapTaken(trap_cpu.pc, kExceptionCodeInterrupt, {}, trap_csr.badv)
    /\ trap_hist' = [trap_hist EXCEPT !.depth = @ + 1]

\* The entry stub: build the TrapFrame and call RocinanteTrapHandler.
TrapStubEntry ==
    /\ trap_cpu.mode = "stub_entry"
    /\ trap_frame' = SavedTrapFrame(TrapCsrs)
    /\ trap_cpu' = [trap_cpu EXCEPT !.mode = "handler"]
    /\ UNCHANGED <<crmd, trap_csr, trap_test, trap_hist, nonTrapVars>>

\* RocinanteTrapHandler up to its first CSR write: for the timer interrupt
\* that is ClearTimerInterrupt, with StopTimer still to come; the other
\* branches finish here, by returning to the stub or in halt().
RocinanteTrapHandler ==
    /\ trap_cpu.mode = "handler"
    /\ \E decision \in {RocinanteTrapHandlerDecision(trap_test, trap_frame)} :
           IF decision.branch = "timer"
           THEN /\ TrapCsrsBecome(ClearTimerInterrupt(TrapCsrs))
                /\ trap_cpu' = [trap_cpu EXCEPT !.mode = "handler_stop_timer",
                                                !.event = decision.branch]
                /\ trap_hist' = [trap_hist EXCEPT !.timer_traps = @ + 1]
                /\ UNCHANGED <<trap_frame, trap_test>>
           ELSE /\ trap_cpu' = [trap_cpu EXCEPT !.mode = IF decision.returns
                                                         THEN "stub_return" ELSE "halted",
                                                !.event = decision.branch]
                /\ trap_frame' = decision.tf
                /\ trap_test' = decision.test
                /\ UNCHANGED <<crmd, trap_csr, trap_hist>>
    /\ UNCHANGED nonTrapVars

\* The rest of the timer branch: StopTimer, the test hook's flag, return.
RocinanteTrapHandlerStopTimer ==
    /\ trap_cpu.mode = "handler_stop_timer"
    /\ TrapCsrsBecome(StopTimer(TrapCsrs))
    /\ \E decision \in {RocinanteTrapHandlerDecision(trap_test, trap_frame)} :
           /\ trap_frame' = decision.tf
           /\ trap_test' = decision.test
    /\ trap_cpu' = [trap_cpu EXCEPT !.mode = "stub_return"]
    /\ trap_hist' = [trap_hist EXCEPT !.timer_started = FALSE]
    /\ UNCHANGED nonTrapVars

\* The exit stub: write the frame's return address to CSR.ERA and execute
\* ERTN.
TrapStubReturn ==
    /\ trap_cpu.mode = "stub_return"
    /\ TrapCsrsBecome(ExceptionReturn([TrapCsrs EXCEPT
                                          !.era = trap_frame.exception_return_address]))
    /\ trap_cpu' = [trap_cpu EXCEPT !.mode = "program",
                                    !.pc = trap_frame.exception_return_address]
    /\ trap_hist' = [trap_hist EXCEPT !.depth = @ - 1, !.returned = @ + 1]
    /\ UNCHANGED <<trap_frame, trap_test, nonTrapVars>>

NextTrap ==
    \/ CallEnableInterrupts
    \/ CallDisableInterrupts
    \/ CallMaskAllInterruptLines
    \/ CallUnmaskTimerInterruptLine
    \/ \E ticks \in TimerTicksInputs : CallStartOneShotTimerTicks(ticks)
    \/ CallResetTrapObservations
    \/ \E arm \in ArmInputs : CallArmExpectedTrap(arm[1], arm[2])
    \/ \E site \in TrapSites : ExecuteBreak(site)
    \/ \E site \in TrapSites : \E fault \in FaultInputs : ExecuteFaulting(site, fault)
    \/ TimerTick
    \/ InterruptEntry
    \/ TrapStubEntry
    \/ RocinanteTrapHandler
    \/ RocinanteTrapHandlerStopTimer
    \/ TrapStubReturn

SpecTrap == InitTrap /\ [][NextTrap]_vars

\* The CPU, its timer, the stub and the handler keep executing; whether the
\* program makes any of its calls is up to the program.
SpecTrapFair ==
    /\ SpecTrap
    /\ WF_vars(TimerTick)
    /\ WF_vars(InterruptEntry)
    /\ WF_vars(TrapStubEntry)
    /\ WF_vars(RocinanteTrapHandler)
    /\ WF_vars(RocinanteTrapHandlerStopTimer)
    /\ WF_vars(TrapStubReturn)

\* ========================================================================
\* CPUCFG (sp/cpucfg.h)
\* ========================================================================
\* Fault model: the field is not masked to its width.
_bits_unmasked(value, high, low) == ShiftRight(value, low)

_bits(value, high, low) ==
    LET width == (high - low) + 1
    IN  ShiftRight(value, low) \cap (IF width >= 32 THEN 0 .. 31 ELSE 0 .. (width - 1))

\* The slot of a word number, <<>> for nullptr.
_word_slot(word_number) ==
    IF word_number \in (0 .. 6) \cup (16 .. 20) THEN <<word_number>> ELSE <<>>

kCPUCFGWordCount == 21

\* FakeCPUCFGBackend::Read
FakeCPUCFGBackendRead(words, word_number) ==
    IF word_number < kCPUCFGWordCount THEN words[word_number] ELSE {}

\* One read of the backend, counted.
_read_word(c, word_number) ==
    [c |-> [c EXCEPT !.backend_read_count = @ + 1],
     value |-> FakeCPUCFGBackendRead(c.backend, word_number)]

\* Fault model: the value read is returned but not stored.
_load_word_not_storing(c, word_number) == _read_word(c, word_number)

_load_word(c, word_number) ==
    LET r == _read_word(c, word_number)
        slot == _word_slot(word_number)
    IN  [c |-> IF slot # <<>> THEN [r.c EXCEPT !.slots[slot[1]] = <<r.value>>] ELSE r.c,
         value |-> r.value]

_word(c, word_number) ==
    LET slot == _word_slot(word_number)
    IN  IF slot # <<>> /\ c.slots[slot[1]] # <<>>
        THEN [c |-> c, value |-> c.slots[slot[1]][1]]
        ELSE _load_word(c, word_number)

\* The decoded queries: the object after the query and the value returned.
CpucfgDecoded(r, value) == [c |-> r.c, value |-> value]

Arch(c) == CpucfgDecoded(_word(c, 1), NatOfBits(_bits(_word(c, 1).value, 1, 0)))

PALENMinus1(c) == CpucfgDecoded(_word(c, 1), NatOfBits(_bits(_word(c, 1).value, 11, 4)))

VALENMinus1(c) == CpucfgDecoded(_word(c, 1), NatOfBits(_bits(_word(c, 1).value, 19, 12)))

PhysicalAddressBits(c) == CpucfgDecoded(PALENMinus1(c), PALENMinus1(c).value + 1)

VirtualAddressBits(c) == CpucfgDecoded(VALENMinus1(c), VALENMinus1(c).value + 1)

\* ResetCache: every slot empty, the read count back to 0.
ResetCache(c) == CpucfgAtConstruction(c.backend)

\* Word 0x1 as Test_CPUCFG_FakeBackend_DecodesWord1 builds it, with the bits
\* outside the three fields given by other.
CpucfgWord1(arch, palen_minus_1, valen_minus_1, other) ==
    ToBits(arch) \cup ShiftLeft(ToBits(palen_minus_1), 4)
                 \cup ShiftLeft(ToBits(valen_minus_1), 12) \cup other

CpucfgWord1Values ==
    { CpucfgWord1(arch, palen_minus_1, valen_minus_1, other) :
          arch \in 0 .. 3, palen_minus_1 \in {0, 47, 255}, valen_minus_1 \in {0, 47, 255},
          other \in { {}, {2, 3} \cup (20 .. 31) } }

kProcessorIDWordValue == 305419896      \* 0x12345678

nonCpucfgVars == <<nonSideVars, crmd, trapVars, bootMapVars, libraryVars>>

InitCpucfg ==
    /\ PmmAndPagingAtBoot
    /\ KernelIdle
    /\ TrapIdle("kernel")
    /\ BootMapIdle
    /\ LibraryIdle
    /\ \E word1 \in CpucfgWord1Values :
           cpucfg = CpucfgAtConstruction([CpucfgBackendAtBoot EXCEPT
                                             ![0] = ToBits(kProcessorIDWordValue),
                                             ![1] = word1,
                                             ![7] = {0},
                                             ![20] = {4}])
    /\ cpucfg_hist = CpucfgHistAtConstruction

\* A query that goes through _word(word_number) and leaves r.
CpucfgQuery(op, word_number, r) ==
    /\ r.c.backend_read_count <= MaxBackendReads
    /\ cpucfg' = r.c
    /\ cpucfg_hist' = [reads |-> [cpucfg_hist.reads EXCEPT ![word_number] =
                                      @ + (r.c.backend_read_count - cpucfg.backend_read_count)],
                       last |-> [op |-> op, word_number |-> word_number, value |-> r.value]]
    /\ UNCHANGED nonCpucfgVars

CallWord(word_number) == CpucfgQuery("Word", word_number, _word(cpucfg, word_number))

CallArch == CpucfgQuery("Arch", 1, Arch(cpucfg))

CallPhysicalAddressBits == CpucfgQuery("PhysicalAddressBits", 1, PhysicalAddressBits(cpucfg))

CallVirtualAddressBits == CpucfgQuery("VirtualAddressBits", 1, VirtualAddressBits(cpucfg))

CallResetCache ==
    /\ cpucfg' = ResetCache(cpucfg)
    /\ cpucfg_hist' = [reads |-> CpucfgHistAtConstruction.reads,
                       last |-> [op |-> "ResetCache", word_number |-> 0, value |-> 0]]
    /\ UNCHANGED nonCpucfgVars

CpucfgQueryWords == {0, 1, 7, 20, 21}

NextCpucfg ==
    \/ \E word_number \in CpucfgQueryWords : CallWord(word_number)
    \/ CallArch
    \/ CallPhysicalAddressBits
    \/ CallVirtualAddressBits
    \/ CallResetCache

SpecCpucfg == InitCpucfg /\ [][NextCpucfg]_vars

\* ========================================================================
\* BootMemoryMap as its callers use it (boot_memory_map.h, boot_memory_map.cpp)
\* ========================================================================
nonBootMapVars == <<nonSideVars, crmd, trapVars, cpucfgVars, libraryVars>>

\* ---- TryParseFromDeviceTree ----
\* A device tree blob is modelled by what the byte-level readers make of it:
\*   header_ok  whether TryMakeFdtView accepts the header;
\*   memreserve the (address, size) pairs of the memreserve table up to the
\*              end of the blob (the table ends at the pair of zeros);
\*   structure  the tokens of the structure block up to its end, a token the
\*              cursor cannot read completely being [token |-> "truncated"],
\*              and name_ok telling whether a property's name offset lies in
\*              the strings block.
kStackDepth == 32

\* A C string is the sequence of its characters before the terminator.
kNameMemory == <<"m", "e", "m", "o", "r", "y">>

kNameMemoryAt == kNameMemory \o <<"@">>

kNameReservedMemory == <<"r", "e", "s", "e", "r", "v", "e", "d", "-">> \o kNameMemory

kNameReg == <<"r", "e", "g">>

kNameCells == <<"-", "c", "e", "l", "l", "s">>

kNameAddressCells == <<"#", "a", "d", "d", "r", "e", "s", "s">> \o kNameCells

kNameSizeCells == <<"#", "s", "i", "z", "e">> \o kNameCells

\* The loop of StartsWith from character i on: the terminator of str differs
\* from every character of prefix.
RECURSIVE StartsWithFrom(_, _, _)
StartsWithFrom(str, prefix, i) ==
    IF i > Len(prefix) THEN TRUE
    ELSE IF i > Len(str) THEN FALSE
    ELSE IF str[i] # prefix[i] THEN FALSE
    ELSE StartsWithFrom(str, prefix, i + 1)

StartsWith(str, prefix) == StartsWithFrom(str, prefix, 1)

NodeContext(address_cells, size_cells) ==
    [address_cells |-> address_cells, size_cells |-> size_cells]

\* A property value is the sequence of its big-endian 32-bit cells.
kCellSizeBytes == 4

\* ReadBe32 / ReadBe64 at cell `at` (cells numbered from 1).
ReadBeCells(cells, at, count) ==
    IF count = 1 THEN cells[at] ELSE cells[at] * 65536 * 65536 + cells[at + 1]

\* The loop of TryReadAddressSizePairs from the tuple at cell `at` on.
RECURSIVE AddPairs(_, _, _, _, _, _)
AddPairs(map, cells, address_cells, size_cells, type, at) ==
    IF at > Len(cells) THEN [ok |-> TRUE, map |-> map]
    ELSE LET address == ReadBeCells(cells, at, address_cells)
             size == ReadBeCells(cells, at + address_cells, size_cells)
             added == AddRegionResult(map, Region(address, size, type))
         IN  IF size = 0
             THEN AddPairs(map, cells, address_cells, size_cells, type,
                           at + address_cells + size_cells)
             ELSE IF ~added.ok THEN [ok |-> FALSE, map |-> map]
             ELSE AddPairs(added.map, cells, address_cells, size_cells, type,
                           at + address_cells + size_cells)

TryReadAddressSizePairs(map, cells, address_cells, size_cells, type) ==
    IF address_cells = 0 \/ size_cells = 0 THEN [ok |-> FALSE, map |-> map]
    ELSE IF address_cells > 2 \/ size_cells > 2 THEN [ok |-> FALSE, map |-> map]
    ELSE IF (Len(cells) * kCellSizeBytes) % ((address_cells + size_cells) * kCellSizeBytes) # 0
    THEN [ok |-> FALSE, map |-> map]
    ELSE AddPairs(map, cells, address_cells, size_cells, type, 1)

RECURSIVE ParseMemReserveTable(_, _, _)
ParseMemReserveTable(map, memreserve, i) ==
    IF i > Len(memreserve) THEN [ok |-> FALSE, map |-> map]
    ELSE IF memreserve[i] = <<0, 0>> THEN [ok |-> TRUE, map |-> map]
    ELSE IF memreserve[i][2] = 0 THEN ParseMemReserveTable(map, memreserve, i + 1)
    ELSE IF ~AddRegionResult(map, Region(memreserve[i][1], memreserve[i][2], Reserved)).ok
    THEN [ok |-> FALSE, map |-> map]
    ELSE ParseMemReserveTable(
             AddRegionResult(map, Region(memreserve[i][1], memreserve[i][2], Reserved)).map,
             memreserve, i + 1)

\* The locals of ParseStructureBlockWithNodeNames before its loop.
StructureParserAtStart(map) ==
    [depth |-> 0,
     ctx_stack |-> [d \in 0 .. (kStackDepth - 1) |->
                      IF d = 0 THEN NodeContext(2, 1) ELSE NodeContext(0, 0)],
     name_stack |-> [d \in 0 .. (kStackDepth - 1) |-> <<>>],
     reserved_memory_ctx |-> NodeContext(2, 1),
     in_reserved_memory_node |-> FALSE,
     map |-> map]

Parsing(st) == [done |-> FALSE, ok |-> TRUE, st |-> st]

ParseFailed(st) == [done |-> TRUE, ok |-> FALSE, st |-> st]

ParseEnded(st) == [done |-> TRUE, ok |-> TRUE, st |-> st]

BeginNodeToken(st, token) ==
    IF st.depth + 1 >= kStackDepth THEN ParseFailed(st)
    ELSE Parsing([st EXCEPT
             !.ctx_stack[st.depth + 1] = st.ctx_stack[st.depth],
             !.name_stack[st.depth + 1] = token.name,
             !.depth = st.depth + 1,
             !.in_reserved_memory_node =
                 IF st.depth + 1 = 2 /\ StartsWith(token.name, kNameReservedMemory) THEN TRUE ELSE @,
             !.reserved_memory_ctx =
                 IF st.depth + 1 = 2 /\ StartsWith(token.name, kNameReservedMemory)
                 THEN st.ctx_stack[st.depth] ELSE @])

EndNodeToken(st) ==
    IF st.depth = 0 THEN ParseFailed(st)
    ELSE Parsing([st EXCEPT
             !.in_reserved_memory_node = IF st.depth = 2 THEN FALSE ELSE @,
             !.depth = st.depth - 1])

\* The cell-count properties: applied when the value is one u32.
PropCells(st, token) ==
    LET is_u32 == Len(token.cells) * kCellSizeBytes = 4
        root_ac == st.depth = 1 /\ StartsWith(token.name, kNameAddressCells) /\ is_u32
        root_sc == st.depth = 1 /\ StartsWith(token.name, kNameSizeCells) /\ is_u32
        rm_ac == st.depth = 2 /\ st.in_reserved_memory_node
                     /\ StartsWith(token.name, kNameAddressCells) /\ is_u32
        rm_sc == st.depth = 2 /\ st.in_reserved_memory_node
                     /\ StartsWith(token.name, kNameSizeCells) /\ is_u32
    IN  [st EXCEPT
            !.ctx_stack[st.depth].address_cells = IF root_ac THEN token.cells[1] ELSE @,
            !.ctx_stack[st.depth].size_cells = IF root_sc THEN token.cells[1] ELSE @,
            !.reserved_memory_ctx.address_cells = IF rm_ac THEN token.cells[1] ELSE @,
            !.reserved_memory_ctx.size_cells = IF rm_sc THEN token.cells[1] ELSE @]

PropReserved(st, token) ==
    IF st.in_reserved_memory_node /\ st.depth >= 3 /\ StartsWith(token.name, kNameReg)
    THEN LET r == TryReadAddressSizePairs(st.map, token.cells, st.reserved_memory_ctx.address_cells,
                                          st.reserved_memory_ctx.size_cells, Reserved)
         IN  IF r.ok THEN Parsing([st EXCEPT !.map = r.map])
             ELSE ParseFailed([st EXCEPT !.map = r.map])
    ELSE Parsing(st)

PropMemory(st, token) ==
    IF /\ st.depth = 2
       /\ StartsWith(token.name, kNameReg)
       /\ \/ StartsWith(st.name_stack[st.depth], kNameMemoryAt)
          \/ StartsWith(st.name_stack[st.depth], kNameMemory)
    THEN LET r == TryReadAddressSizePairs(st.map, token.cells, st.ctx_stack[st.depth].address_cells,
                                          st.ctx_stack[st.depth].size_cells, Usable)
         IN  IF r.ok THEN PropReserved([st EXCEPT !.map = r.map], token)
             ELSE ParseFailed([st EXCEPT !.map = r.map])
    ELSE PropReserved(st, token)

PropToken(st, token) ==
    IF ~token.name_ok THEN ParseFailed(st)
    ELSE PropMemory(PropCells(st, token), token)

StructureToken(st, token) ==
    CASE token.token = "begin_node" -> BeginNodeToken(st, token)
      [] token.token = "end_node" -> EndNodeToken(st)
      [] token.token = "prop" -> PropToken(st, token)
      [] token.token = "nop" -> Parsing(st)
      [] token.token = "end" -> ParseEnded(st)
      [] OTHER -> ParseFailed(st)

RECURSIVE StructureLoop(_, _, _)
StructureLoop(st, structure, i) ==
    IF i > Len(structure) THEN ParseFailed(st)
    ELSE IF StructureToken(st, structure[i]).done THEN StructureToken(st, structure[i])
    ELSE StructureLoop(StructureToken(st, structure[i]).st, structure, i + 1)

ParseStructureBlockWithNodeNames(map, structure) ==
    [ok |-> StructureLoop(StructureParserAtStart(map), structure, 1).ok,
     map |-> StructureLoop(StructureParserAtStart(map), structure, 1).st.map]

\* TryParseFromDeviceTree on the map `map`: Clear() first.
TryParseFromDeviceTree(map, dtb) ==
    IF ~dtb.header_ok THEN [ok |-> FALSE, map |-> <<>>]
    ELSE IF ~ParseMemReserveTable(<<>>, dtb.memreserve, 1).ok
    THEN [ok |-> FALSE, map |-> ParseMemReserveTable(<<>>, dtb.memreserve, 1).map]
    ELSE ParseStructureBlockWithNodeNames(ParseMemReserveTable(<<>>, dtb.memreserve, 1).map,
                                          dtb.structure)

\* memory@100000, region@1000, cpus, device_type, reg-names
TestMemoryName == kNameMemoryAt \o <<"1", "0", "0", "0", "0", "0">>

TestRegionName == kNameReg \o <<"i", "o", "n", "@", "1", "0", "0", "0">>

TestCpusName == <<"c", "p", "u", "s">>

TestDeviceTypeName == <<"d", "e", "v", "i", "c", "e", "_", "t", "y", "p", "e">>

TestRegNamesName == kNameReg \o <<"-", "n", "a", "m", "e", "s">>

\* Tokens.
BeginNode(name) == [token |-> "begin_node", name |-> name]

EndNode == [token |-> "end_node"]

End == [token |-> "end"]

Prop(name, cells) == [token |-> "prop", name |-> name, name_ok |-> TRUE, cells |-> cells]

\* A reg value of (address, size) pairs, two cells each.
RECURSIVE RegCells(_)
RegCells(pairs) ==
    IF pairs = <<>> THEN <<>>
    ELSE <<0, pairs[1][1], 0, pairs[1][2]>> \o RegCells(Tail(pairs))

PropReg(pairs) == Prop(kNameReg, RegCells(pairs))

Dtb(header_ok, memreserve, structure) ==
    [header_ok |-> header_ok, memreserve |-> memreserve, structure |-> structure]

TestMemoryNode ==
    <<BeginNode(TestMemoryName), PropReg(<<<<256 * kPageSizeBytes, 8 * kPageSizeBytes>>>>), EndNode>>

TestReservedMemoryNode ==
    <<BeginNode(kNameReservedMemory), Prop(kNameAddressCells, <<2>>), Prop(kNameSizeCells, <<2>>),
      BeginNode(TestRegionName), PropReg(<<<<kPageSizeBytes, kPageSizeBytes>>>>), EndNode, EndNode>>

TestRootCells == <<Prop(kNameAddressCells, <<2>>), Prop(kNameSizeCells, <<2>>)>>

\* The blobs of the model: a well-formed one, and one for each way of failing;
\* the last has a property whose name only starts with "reg".
DtbInputs ==
    { Dtb(TRUE, <<<<2 * kPageSizeBytes, kPageSizeBytes>>, <<0, 0>>>>,
          <<BeginNode(<<>>)>> \o TestRootCells \o TestMemoryNode \o TestReservedMemoryNode
              \o <<EndNode, End>>),
      Dtb(FALSE, <<<<0, 0>>>>, <<End>>),
      Dtb(TRUE, <<<<2 * kPageSizeBytes, kPageSizeBytes>>>>, <<End>>),
      Dtb(TRUE, <<<<0 - kPageSizeBytes, 2 * kPageSizeBytes>>, <<0, 0>>>>, <<End>>),
      Dtb(TRUE, <<<<2 * kPageSizeBytes, kPageSizeBytes>>, <<0, 0>>>>,
          <<BeginNode(<<>>)>> \o TestRootCells \o TestMemoryNode \o <<[token |-> "bad"], End>>),
      Dtb(TRUE, <<<<2 * kPageSizeBytes, kPageSizeBytes>>, <<0, 0>>>>,
          <<BeginNode(<<>>)>> \o TestMemoryNode \o <<EndNode, End>>),
      Dtb(TRUE, <<<<0, 0>>>>,
          <<BeginNode(<<>>)>> \o TestRootCells \o TestMemoryNode \o <<[token |-> "truncated"]>>),
      Dtb(TRUE, <<<<0, 0>>>>,
          <<BeginNode(<<>>)>> \o TestRootCells \o TestMemoryNode
              \o <<[Prop(TestDeviceTypeName, <<>>) EXCEPT !.name_ok = FALSE], End>>),
      Dtb(TRUE, <<<<0, 0>>>>,
          <<BeginNode(<<>>), Prop(kNameAddressCells, <<3>>)>> \o TestMemoryNode \o <<EndNode, End>>),
      Dtb(TRUE, <<<<2 * kPageSizeBytes, kPageSizeBytes>>, <<0, 0>>>>,
          <<BeginNode(<<>>), EndNode, EndNode, End>>),
      Dtb(TRUE, <<<<0, 0>>>>,
          <<BeginNode(<<>>)>> \o TestRootCells \o TestMemoryNode
              \o [k \in 1 .. kStackDepth |-> BeginNode(TestCpusName)] \o <<End>>),
      Dtb(TRUE, <<<<0, 0>>>>,
          <<BeginNode(<<>>)>> \o TestRootCells
              \o <<BeginNode(kNameMemory),
                   PropReg([k \in 1 .. (kMaxRegions + 1) |->
                               <<2 * k * kPageSizeBytes, kPageSizeBytes>>]),
                   EndNode, EndNode, End>>),
      Dtb(TRUE, <<<<0, 0>>>>,
          <<BeginNode(<<>>)>> \o TestRootCells
              \o <<BeginNode(TestMemoryName),
                   PropReg(<<<<256 * kPageSizeBytes, 8 * kPageSizeBytes>>>>),
                   Prop(TestRegNamesName, <<0, 0, 0>>),
                   EndNode, EndNode, End>>) }

\* A map one below capacity, as 63 AddRegion calls for every second page of a
\* range leave it: none of them merges, each is appended.
AlmostFullMapBase == 256 * kPageSizeBytes

AlmostFullMap ==
    [k \in 1 .. (kMaxRegions - 1) |->
        Region(AlmostFullMapBase + (2 * k * kPageSizeBytes), kPageSizeBytes, Usable)]

\* The regions the callers add: pages 1..4 of either type, a two-page range,
\* a page next to the almost full map's first region and one away from all of
\* them, a zero-sized region, and regions at the top of the address space
\* (not wrapping, ending at 2^64, wrapping).
AddRegionInputs ==
    { Region(k * kPageSizeBytes, kPageSizeBytes, type) : k \in 1 .. 4, type \in {Usable, Reserved} }
        \cup { Region(kPageSizeBytes, 2 * kPageSizeBytes, Usable),
               Region(AlmostFullMapBase + (3 * kPageSizeBytes), kPageSizeBytes, Usable),
               Region(AlmostFullMapBase, kPageSizeBytes, Usable),
               Region(kPageSizeBytes, 0, Usable),
               Region(0 - (2 * kPageSizeBytes), kPageSizeBytes, Reserved),
               Region(0 - kPageSizeBytes, kPageSizeBytes, Reserved),
               Region(0 - kPageSizeBytes, 2 * kPageSizeBytes, Reserved) }

InitBootMap ==
    /\ PmmAndPagingAtBoot
    /\ KernelIdle
    /\ TrapIdle("kernel")
    /\ CpucfgIdle
    /\ LibraryIdle
    /\ region_map \in { <<>>, AlmostFullMap }
    /\ region_map_hist = NoAddRegionCall

CallAddRegion(region) ==
    /\ region_map_hist.calls < MaxAddRegionCalls
    /\ \E r \in {AddRegionResult(region_map, region)} :
           /\ region_map' = r.map
           /\ region_map_hist' = [calls |-> region_map_hist.calls + 1, op |-> "AddRegion",
                                  ok |-> r.ok, region |-> region, before |-> region_map]
    /\ UNCHANGED nonBootMapVars

\* BootMemoryMap::Clear
CallClear ==
    /\ region_map # <<>>
    /\ region_map' = <<>>
    /\ region_map_hist' = [region_map_hist EXCEPT !.op = "Clear", !.ok = TRUE,
                                                  !.before = region_map]
    /\ UNCHANGED nonBootMapVars

CallTryParseFromDeviceTree(dtb) ==
    /\ region_map_hist.calls + ParseCallBudget <= MaxAddRegionCalls
    /\ \E r \in {TryParseFromDeviceTree(region_map, dtb)} :
           /\ region_map' = r.map
           /\ region_map_hist' = [region_map_hist EXCEPT !.op = "TryParseFromDeviceTree",
                                                         !.calls = @ + ParseCallBudget,
                                                         !.ok = r.ok, !.before = region_map]
    /\ UNCHANGED nonBootMapVars

NextBootMap ==
    \/ \E region \in AddRegionInputs : CallAddRegion(region)
    \/ CallClear
    \/ \E dtb \in DtbInputs : CallTryParseFromDeviceTree(dtb)

SpecBootMap == InitBootMap /\ [][NextBootMap]_vars

\* ========================================================================
\* Properties of the physical memory manager
\* ========================================================================
\* The page [a, a + 4096) and the range [base, base + size) share a byte
\* (for ranges that do not wrap).
PageOverlaps(a, base, size) ==
    /\ size # 0
    /\ ULt(a, base + size)
    /\ ULt(base, a + kPageSizeBytes)

RegionsOfType(map, type) == { map[i] : i \in { j \in 1 .. Len(map) : map[j].type = type } }

\* What the specification promises of an address AllocatePage returned.
AllocationIsSafe(a) ==
    /\ a % kPageSizeBytes = 0
    /\ ULe(m_tracked_physical_base, a)
    /\ ULt(a, m_tracked_physical_limit)
    /\ \A r \in RegionsOfType(init_in.map, Reserved) :
           ~PageOverlaps(a, r.physical_base, r.size_bytes)
    /\ UGt(init_in.kernel_physical_end, init_in.kernel_physical_base) =>
           ~PageOverlaps(a, init_in.kernel_physical_base,
                         init_in.kernel_physical_end - init_in.kernel_physical_base)
    /\ ~PageOverlaps(a, init_in.device_tree_physical_base, init_in.device_tree_size_bytes)
    /\ ~PageOverlaps(a, m_bitmap_physical_base, m_bitmap_size_bytes)
    /\ ~PageOverlaps(a, 0, kPageSizeBytes)

Allocated == last.op = "AllocatePage" /\ last.ok

\* C1 as stated: after any sequence of AllocatePage, FreePage and ReserveRange
\* calls, every address AllocatePage returns is page-aligned, inside the
\* tracked span and outside every Reserved region, the kernel image, the DTB
\* blob, the bitmap storage and page 0.
C1_AnySequence == Allocated => AllocationIsSafe(last.value)

\* C1 (amended): the same, for call sequences in which FreePage is only given
\* pages that AllocatePage handed out and that were not freed since.
C1_AllocationSafe == (Allocated /\ ~freed_foreign) => AllocationIsSafe(last.value)

C1_Witness ==
    /\ Allocated
    /\ ~freed_foreign
    /\ n_free > 0
    /\ reserve_called
    /\ RegionsOfType(init_in.map, Reserved) # {}
    /\ UGt(init_in.kernel_physical_end, init_in.kernel_physical_base)

\* C2: AllocatePage never returns a page that is currently allocated, and
\* from a freshly initialized PMM repeated AllocatePage calls return pairwise
\* distinct pages, initial FreePages() of them, and only then an empty result
\* with FreePages() = 0.
C2_NoDoubleAllocation ==
    /\ [][(last'.op = "AllocatePage" /\ last'.ok) => last'.value \notin allocated]_vars
    /\ []((m_initialized /\ n_free = 0 /\ ~reserve_called) =>
            /\ Cardinality(allocated) = n_alloc
            /\ n_alloc + m_free_page_count = initial_free
            /\ (last.op = "AllocatePage" /\ ~last.ok) =>
                   (m_free_page_count = 0 /\ n_alloc = initial_free))

C2_Witness ==
    /\ m_initialized
    /\ last.op = "AllocatePage"
    /\ ~last.ok
    /\ n_free = 0
    /\ ~reserve_called
    /\ n_alloc >= 2

\* C3: the boot map of the PMM self-test (16 usable pages, 2 reserved, kernel
\* of 4 pages, DTB of 1 page) initializes with TotalPages() = 16 and
\* FreePages() = 9.
TestCall == InitializeCall(BuildMap(<<>>, <<TestRam, TestReserved>>, 1), TestKernelAndDtb)

AfterTestInitialize ==
    /\ last.op = "Initialize"
    /\ init_in.map = TestCall.map
    /\ init_in.kernel_physical_base = TestKernelAndDtb.kernel_physical_base
    /\ init_in.kernel_physical_end = TestKernelAndDtb.kernel_physical_end
    /\ init_in.device_tree_physical_base = TestKernelAndDtb.device_tree_physical_base
    /\ init_in.device_tree_size_bytes = TestKernelAndDtb.device_tree_size_bytes

C3_TestScenarioCounts ==
    AfterTestInitialize =>
        (m_initialized /\ m_page_count = 16 /\ m_free_page_count = 9)

\* C4: on an initialized PMM the free count is the number of 0 bits among
\* bits [0, page_count), and the tracked span is page_count pages long.
C4_FreeCountIsPopcount ==
    m_initialized =>
        /\ m_free_page_count = Cardinality({ i \in 0 .. (m_page_count - 1) : i \in bitmap })
        /\ m_tracked_physical_limit - m_tracked_physical_base = m_page_count * kPageSizeBytes

C4_Witness ==
    /\ m_initialized
    /\ last.op = "ReserveRange"
    /\ n_alloc > 0
    /\ n_free > 0
    /\ m_free_page_count > 0
    /\ m_free_page_count < initial_free

\* C5: without ReserveRange, FreePages() = initial_free + M - N after N
\* successful AllocatePage and M successful FreePage calls.
C5_FreeCountBalance ==
    (m_initialized /\ ~reserve_called) =>
        m_free_page_count = initial_free + n_free - n_alloc

C5_Witness ==
    /\ m_initialized
    /\ ~reserve_called
    /\ n_alloc >= 2
    /\ n_free >= 1
    /\ last.op = "FreePage"
    /\ ~last.ok

\* C6: FreePage(addr) returns false and changes nothing when the PMM is
\* uninitialized, addr is misaligned or outside the tracked span, or the page
\* is FREE; it returns true only for a USED page, and then clears exactly
\* that bit and adds one to the free count.
C6_FreePageContract ==
    [][last'.op = "FreePage" =>
        LET pa == last'.arg
            in_span == ULe(m_tracked_physical_base, pa) /\ ULt(pa, m_tracked_physical_limit)
            index == (pa - m_tracked_physical_base) \div kPageSizeBytes
            rejected == \/ ~m_initialized
                        \/ pa % kPageSizeBytes # 0
                        \/ ~in_span
                        \/ index \in bitmap
        IN  /\ rejected => ~last'.ok
            /\ ~last'.ok => UNCHANGED <<bitmap, m_free_page_count, m_next_search_index>>
            /\ last'.ok =>
                   /\ ~rejected
                   /\ bitmap' = bitmap \cup {index}
                   /\ bitmap' # bitmap
                   /\ m_free_page_count' = m_free_page_count + 1]_vars

C6_Witness ==
    /\ m_initialized
    /\ last.op = "FreePage"
    /\ ~last.ok
    /\ n_free > 0
    /\ last.arg % kPageSizeBytes = 0
    /\ ULe(m_tracked_physical_base, last.arg)
    /\ ULt(last.arg, m_tracked_physical_limit)


\* The tracked pages with a byte in [base, base + size), for a range that is
\* not empty and does not wrap; no page otherwise.
CoveredPages(base, size) ==
    IF size = 0 \/ AddOverflows(base, size) THEN {}
    ELSE { i \in 0 .. (m_page_count - 1) :
               PageOverlaps(PageIndexToPhysical(m_tracked_physical_base, i), base, size) }

\* The tracked pages inside [floor_page(base), ceil_page(base + size)).
RoundedPages(base, size) ==
    { i \in 0 .. (m_page_count - 1) :
          LET p == PageIndexToPhysical(m_tracked_physical_base, i)
          IN  /\ ULe(AlignDown(base, kPageSizeBytes), p)
              /\ ULt(p, AlignUp(base + size, kPageSizeBytes)) }

ReserveMarks(pages) ==
    /\ last'.ok
    /\ bitmap' = bitmap \ pages
    /\ m_free_page_count' = m_free_page_count - Cardinality(bitmap \cap pages)
    /\ UNCHANGED <<m_next_search_index, m_page_count, m_tracked_physical_base,
                   m_tracked_physical_limit, m_initialized>>

\* C7 as stated: ReserveRange(base, size) marks USED exactly the tracked
\* pages of [floor_page(base), ceil_page(base + size)), for every base and
\* size.
C7_RoundedRange ==
    [][(last'.op = "ReserveRange" /\ m_initialized) =>
           ReserveMarks(RoundedPages(last'.arg, last'.size))]_vars

\* C7 (amended): for size > 0 and base + size not wrapping, ReserveRange
\* marks USED exactly the tracked pages that share a byte with
\* [base, base + size) and takes the FREE ones among them off the free count;
\* for size = 0 or a wrapping range it changes nothing.  A second identical
\* call changes nothing, and AllocatePage returns no page of a reserved range
\* until FreePage frees it.
C7_ReserveRangeEffect ==
    /\ [][(last'.op = "ReserveRange" /\ m_initialized) =>
              ReserveMarks(CoveredPages(last'.arg, last'.size))]_vars
    /\ []((last.op = "ReserveRange" /\ m_initialized) =>
              ReserveRangeResult(bitmap, m_free_page_count, last.arg, last.size)
                  = [bits |-> bitmap, free |-> m_free_page_count])
    /\ [][(last'.op = "AllocatePage" /\ last'.ok) => last'.value \notin reserved_pages]_vars

C7_Witness ==
    /\ m_initialized
    /\ last.op = "ReserveRange"
    /\ last.arg % kPageSizeBytes # 0
    /\ last.size > 0
    /\ n_alloc > 0
    /\ m_free_page_count + n_alloc < initial_free + n_free
    /\ Cardinality(reserved_pages) = 2

\* C8: a failed InitializeFromBootMemoryMap leaves no partial state: the PMM
\* is uninitialized, every size, count and address it reports is zero, and
\* AllocatePage returns empty.
C8_FailedInitLeavesNothing ==
    (last.op = "Initialize" /\ ~last.ok) =>
        /\ ~m_initialized
        /\ m_page_count = 0
        /\ m_free_page_count = 0
        /\ m_tracked_physical_base = 0
        /\ m_tracked_physical_limit = 0
        /\ m_bitmap_physical_base = 0
        /\ m_bitmap_size_bytes = 0
        /\ ~AllocatePageResult(PmmNow).ok

\* C9: after initialization every FREE page lies, with all of its bytes,
\* inside UsableRAM regions of the boot map.
ByteIsUsable(x) ==
    \E r \in RegionsOfType(init_in.map, Usable) :
        ULe(r.physical_base, x) /\ ULt(x, r.physical_base + r.size_bytes)

PageIsUsable(p) == \A off \in 0 .. (kPageSizeBytes - 1) : ByteIsUsable(p + off)

C9_FreePagesAreUsableRam ==
    (last.op = "Initialize" /\ last.ok) =>
        \A i \in bitmap :
            /\ i < m_page_count
            /\ PageIsUsable(PageIndexToPhysical(m_tracked_physical_base, i))


\* ========================================================================
\* Properties of the page-table builder and walker
\* ========================================================================
Mapped == last_paging.op = "MapPage4KiB" /\ last_paging.ok

Unmapped == last_paging.op = "UnmapPage4KiB" /\ last_paging.ok

TranslateNow(virtual_address) ==
    TranslateResult(memory, root_physical_address, virtual_address, cpucfg_address_bits)

\* C10: paging round trip.  After MapPage4KiB(root, va, pa, perms) returns
\* true, Translate(root, va + off) returns pa + off for every off in
\* [0, 4095]; after UnmapPage4KiB(root, va) returns true, Translate(root, va)
\* returns empty.
C10_PagingRoundTrip ==
    /\ Mapped =>
           \A off \in SUBSET kPageOffsetMask :
               TranslateNow(last_paging.virtual_address \cup off)
                   = [ok |-> TRUE, value |-> last_paging.physical_address \cup off]
    /\ Unmapped => ~TranslateNow(last_paging.virtual_address).ok

\* ------------------------------------------------------------------------
\* What the specification says of addresses, stated without the code's masks
\* ------------------------------------------------------------------------
PagingOps == {"MapPage4KiB", "UnmapPage4KiB", "Translate"}

\* Bits [63:N] of the address are the sign extension of bit N-1.
IsCanonical(virtual_address, N) ==
    \A i \in N .. 63 : (i \in virtual_address) <=> ((N - 1) \in virtual_address)

BeyondPalen(physical_address, palen) == \E i \in physical_address : i >= palen

Valen == cpucfg_address_bits.virtual_address_bits

Palen == cpucfg_address_bits.physical_address_bits

LayoutNow == BuildLayout(cpucfg_address_bits)

\* The last call was a MapPage4KiB that returned false.
MapFailed == last_paging.op = "MapPage4KiB" /\ ~last_paging.ok

\* The addresses the model hands to Translate.
TranslateInputs == { va \cup off : va \in VirtualInputs, off \in OffsetInputs }

\* C11: canonical virtual addresses.  With valen N < 64, every operation on a
\* va whose bits [63:N] are not the sign extension of bit N-1 fails
\* (MapPage4KiB and UnmapPage4KiB return false, Translate returns empty); the
\* canonical addresses of both halves pass the check, so that a first
\* MapPage4KiB with otherwise valid arguments fails only on a non-canonical
\* va; valen = 64 passes every address.
C11_CanonicalAddresses ==
    /\ (/\ last_paging.op \in PagingOps
        /\ Valen \in 1 .. 63
        /\ ~IsCanonical(last_paging.virtual_address, Valen)) => ~last_paging.ok
    /\ LayoutNow.ok =>
           \A va \in TranslateInputs :
               ValidateVirtualAddress(va, LayoutNow)
                   <=> (Valen = 64 \/ IsCanonical(va, Valen))
    /\ (/\ MapFailed
        /\ n_map = 0
        /\ m_free_page_count > 0
        /\ root_physical_address # {}
        /\ LayoutNow.ok
        /\ IsPageAligned(last_paging.virtual_address)
        /\ IsPageAligned(last_paging.physical_address)
        /\ ~BeyondPalen(last_paging.physical_address, Palen))
           => (Valen < 64 /\ ~IsCanonical(last_paging.virtual_address, Valen))

\* A MapPage4KiB with a root, a valid configuration and a valid physical
\* address was refused for its non-canonical va alone.
C11_Witness ==
    /\ MapFailed
    /\ root_physical_address # {}
    /\ LayoutNow.ok
    /\ Valen < 64
    /\ IsPageAligned(last_paging.virtual_address)
    /\ IsPageAligned(last_paging.physical_address)
    /\ ~BeyondPalen(last_paging.physical_address, Palen)
    /\ ~IsCanonical(last_paging.virtual_address, Valen)

\* The step is a MapPage4KiB call (one that changes the state).
MapStep == last_paging'.op = "MapPage4KiB"

UnmapStep == last_paging'.op = "UnmapPage4KiB"

TranslateNext(virtual_address) ==
    TranslateResult(memory', root_physical_address', virtual_address, cpucfg_address_bits')

\* C12: a MapPage4KiB whose pa has a bit set at index >= palen returns false
\* and creates no mapping: the tables are as before and Translate(va) returns
\* what it returned before.
C12_PalenRange ==
    [][(MapStep /\ BeyondPalen(last_paging'.physical_address, Palen)) =>
           /\ ~last_paging'.ok
           /\ memory' = memory
           /\ TranslateNext(last_paging'.virtual_address)
                  = TranslateNow(last_paging'.virtual_address)]_vars

\* A MapPage4KiB with valid arguments but for a pa beyond PALEN was refused.
C12_Witness ==
    /\ MapFailed
    /\ root_physical_address # {}
    /\ LayoutNow.ok
    /\ IsPageAligned(last_paging.virtual_address)
    /\ IsPageAligned(last_paging.physical_address)
    /\ ValidateVirtualAddress(last_paging.virtual_address, LayoutNow)
    /\ BeyondPalen(last_paging.physical_address, Palen)

\* C13: double-map.  MapPage4KiB on a va whose leaf entry is present (Translate
\* finds it) returns false whatever pa and permissions it is given, and
\* Translate(va) returns afterwards the physical address it returned before,
\* that of the first mapping.
C13_DoubleMap ==
    [][(MapStep /\ TranslateNow(last_paging'.virtual_address).ok) =>
           /\ ~last_paging'.ok
           /\ TranslateNext(last_paging'.virtual_address)
                  = TranslateNow(last_paging'.virtual_address)]_vars

\* A second MapPage4KiB of a mapped va, to another physical page, was refused
\* and the va still translates to the first page.
C13_Witness ==
    /\ MapFailed
    /\ n_map = 1
    /\ IsPageAligned(last_paging.virtual_address)
    /\ IsPageAligned(last_paging.physical_address)
    /\ ~BeyondPalen(last_paging.physical_address, Palen)
    /\ TranslateNow(last_paging.virtual_address).ok
    /\ TranslateNow(last_paging.virtual_address).value # last_paging.physical_address

\* The invalid inputs of MapPage4KiB the specification lists.
MapInputIsInvalid(virtual_address, physical_address) ==
    \/ ~IsPageAligned(virtual_address)
    \/ ~IsPageAligned(physical_address)
    \/ (Valen \in 1 .. 63 /\ ~IsCanonical(virtual_address, Valen))
    \/ BeyondPalen(physical_address, Palen)
    \/ TranslateNow(virtual_address).ok

\* C14: a MapPage4KiB that returns false for an invalid input (misaligned va
\* or pa, non-canonical va, pa beyond PALEN, double-map) and an UnmapPage4KiB
\* that returns false (misaligned or non-canonical va, absent page) leave the
\* contents of the page tables and the PMM free-page count as they were.
C14_InvalidInputChangesNothing ==
    [][(\/ /\ MapStep
           /\ ~last_paging'.ok
           /\ MapInputIsInvalid(last_paging'.virtual_address, last_paging'.physical_address)
        \/ /\ UnmapStep
           /\ ~last_paging'.ok) =>
           /\ memory' = memory
           /\ m_free_page_count' = m_free_page_count]_vars

\* An UnmapPage4KiB of an absent page was refused while the root had tables
\* below it.
C14_Witness ==
    /\ last_paging.op = "UnmapPage4KiB"
    /\ ~last_paging.ok
    /\ root_physical_address # {}
    /\ LayoutNow.ok
    /\ IsPageAligned(last_paging.virtual_address)
    /\ ValidateVirtualAddress(last_paging.virtual_address, LayoutNow)
    /\ n_map = 1
    /\ Cardinality(DOMAIN memory) > 1

\* C15: a MapPage4KiB that fails because the PMM runs out of free pages in the
\* middle of its walk leaves no partial state: the page tables and the PMM
\* free-page count are the same as before the call.
C15_NoPartialState ==
    [][(/\ MapStep
        /\ ~last_paging'.ok
        /\ LayoutNow.ok
        /\ root_physical_address # {}
        /\ ~MapInputIsInvalid(last_paging'.virtual_address, last_paging'.physical_address)
        /\ m_free_page_count' = 0) =>
           /\ memory' = memory
           /\ m_free_page_count' = m_free_page_count]_vars

\* C16: the table-page addressing mode follows CSR.CRMD.  An operation that
\* went through the tables dereferenced the root table page at its physical
\* address p in direct-address mode, and at PhysMapBase(valen) + p in mapped
\* mode.
C16_TablePointerFollowsMode ==
    (last_paging.op \in PagingOps /\ last_paging.ok) =>
        last_paging.table_pointer
            = IF IsMappedAddressTranslationMode
              THEN ToPhysMapVirtual(root_physical_address, Valen)
              ELSE root_physical_address

\* C17: the configuration is accepted exactly when 12 <= palen <= 61 (valen
\* in 1..64): BuildLayout yields a layout for every such palen, and with a
\* palen outside the range every operation fails.
C17_PalenAcceptance ==
    Valen \in 1 .. 64 =>
        /\ LayoutNow.ok <=> Palen \in 12 .. 61
        /\ (Palen \notin 12 .. 61 /\ last_paging.op \in PagingOps) => ~last_paging.ok

\* ------------------------------------------------------------------------
\* The page walker of the hardware, as PWCL and PWCH describe it
\* ------------------------------------------------------------------------
Field(word, shift, field_bits) ==
    NatOfBits(ShiftRight(word, shift) \cap (0 .. (field_bits - 1)))

\* <<base, width>> of walker level i (0: PT, 1: Dir1, ... 4: Dir4).
WalkerLevel(config, i) ==
    IF i = 0 THEN <<Field(config.pwcl, 0, 5), Field(config.pwcl, 5, 5)>>
    ELSE IF i = 1 THEN <<Field(config.pwcl, 10, 5), Field(config.pwcl, 15, 5)>>
    ELSE IF i = 2 THEN <<Field(config.pwcl, 20, 5), Field(config.pwcl, 25, 5)>>
    ELSE IF i = 3 THEN <<Field(config.pwch, 0, 6), Field(config.pwch, 6, 6)>>
    ELSE <<Field(config.pwch, 12, 6), Field(config.pwch, 18, 6)>>

\* (va >> base_i) & (2^width_i - 1)
WalkerIndex(config, virtual_address, i) ==
    ShiftRight(virtual_address, WalkerLevel(config, i)[1])
        \cap (0 .. (WalkerLevel(config, i)[2] - 1))

WalkerLevelCount(config) ==
    Cardinality({ i \in 0 .. (kMaxIndexLevels - 1) : WalkerLevel(config, i)[2] # 0 })

\* C18: the hardware walker configuration matches the software layout.  For
\* every VALEN for which Make4KiBPageWalkerConfig succeeds and every canonical
\* va, the number of walker levels of non-zero width is the software level
\* count, and at each level the index the walker extracts from va,
\* (va >> base_i) & (2^width_i - 1), is the index the software walker uses,
\* (va >> (12 + 9*i)) & 0x1FF.
C18_WalkerMatchesLayout ==
    (/\ walker.op = "IndexFromVirtualAddressAtLevel"
     /\ walker.config.ok
     /\ IsCanonical(walker.virtual_address, walker.address_bits.virtual_address_bits)) =>
        /\ WalkerLevelCount(walker.config) = walker.level_count
        /\ \A i \in 0 .. (walker.level_count - 1) :
               WalkerIndex(walker.config, walker.virtual_address, i) = walker.index[i]

\* ========================================================================
\* Properties of the kernel_main bring-up (SpecKernel)
\* ========================================================================
PalenIncompatible ==
    \/ Palen < kPageShiftBits
    \/ Palen > kLowestHighFlagBit

\* More index bits than kMaxIndexLevels levels of kIndexBitsPerLevel hold, or
\* no index bits at all.
ValenUnsupported ==
    \/ KernelAddressBits.virtual_address_bits <= kPageShiftBits
    \/ KernelAddressBits.virtual_address_bits - kPageShiftBits
           > kMaxIndexLevels * kIndexBitsPerLevel

\* C19: in the kernel_main bring-up, if PALEN is incompatible with the PTE
\* encoding or the VALEN is one Make4KiBPageWalkerConfig does not support,
\* PWCL, PWCH, PGDL and PGDH are never written and EnablePaging is never
\* executed: CRMD keeps DA = 1 and PG = 0 in every state of the run.
C19_NoPagingWhenUnsupported ==
    (PalenIncompatible \/ ValenUnsupported) =>
        /\ csr_writes = {}
        /\ csr = [pwcl |-> {}, pwch |-> {}, pgdl |-> {}, pgdh |-> {}]
        /\ crmd = kDirectAddressingEnable
        /\ kernel_locals.reached \cap {"configure_walker", "enable_paging", "continuation"} = {}

\* The run whose page tables were built and whose VALEN the walker
\* configuration then refused has halted in direct-address mode.
C19_Witness ==
    /\ kernel_pc = "halted"
    /\ ValenUnsupported
    /\ ~PalenIncompatible
    /\ "make_walker_config" \in kernel_locals.reached
    /\ kernel_locals.identity_ok
    /\ crmd = kDirectAddressingEnable
    /\ csr_writes = {}

\* The page tables under the programmed root translate va to pa.
Reaches(virtual_address, physical_address) ==
    LET t == TranslateResult(memory, ProgrammedRoot(virtual_address), virtual_address,
                             KernelAddressBits)
    IN  t.ok /\ t.value = physical_address

PagesOfRange(base, end) ==
    { ToBits(AlignDown(base, kPageSizeBytes) + i * kPageSizeBytes) :
          i \in { j \in 0 .. ((end - AlignDown(base, kPageSizeBytes)) \div kPageSizeBytes) :
                      AlignDown(base, kPageSizeBytes) + j * kPageSizeBytes < end } }

KernelImagePages == PagesOfRange(init_in.kernel_physical_base, init_in.kernel_physical_end)

BitmapPages ==
    PagesOfRange(m_bitmap_physical_base, m_bitmap_physical_base + m_bitmap_size_bytes)

\* The page-table pages are the pages the table code has written: the root and
\* every table EnsureNextLevelTable linked below it.
PageTablePages == DOMAIN memory

ReachableThroughPhysmap(page) ==
    Reaches(ToPhysMapVirtual(page, KernelAddressBits.virtual_address_bits), page)

\* C20: in every run of the kernel_main bring-up, once EnablePaging has
\* written CRMD the page tables under the programmed root translate the
\* identity range of the kernel image, the UART page, the syscon page, the
\* physmap address of every page-table page and the physmap address of the
\* PMM bitmap.
C20_MappedModePreconditions ==
    IsMappedAddressTranslationMode =>
        /\ \A page \in KernelImagePages : Reaches(page, page)
        /\ Reaches(uart_page_base, uart_page_base)
        /\ Reaches(syscon_page_base, syscon_page_base)
        /\ \A page \in PageTablePages : ReachableThroughPhysmap(page)
        /\ \A page \in BitmapPages : ReachableThroughPhysmap(page)

\* C21: the stages of the bring-up run strictly in order and a failed stage
\* skips every stage that depends on it.  No stage is executed twice; the PMM is
\* initialized only after a device tree was located and parsed; page tables are
\* written only after the PMM was initialized; CRMD is written only after PWCL,
\* PWCH, PGDL and PGDH were; the jump to the higher-half continuation follows
\* the CRMD write and is taken only if the higher-half alias of the kernel was
\* mapped.
C21_StagesInOrder ==
    [][/\ kernel_pc' # kernel_pc => kernel_pc' \notin kernel_locals.reached
       /\ (last'.op = "Initialize" /\ last.op # "Initialize") =>
              kernel_locals.boot.dtb_found /\ kernel_locals.boot.parsed
       /\ memory' # memory => m_initialized
       /\ "CRMD" \in csr_writes' \ csr_writes =>
              {"PWCL", "PWCH", "PGDL", "PGDH"} \subseteq csr_writes
       /\ {"PWCL", "PWCH", "PGDL", "PGDH"} \cap (csr_writes' \ csr_writes) # {} =>
              "CRMD" \notin csr_writes
       /\ (kernel_pc = "continuation" /\ kernel_pc' = "halted") =>
              /\ "CRMD" \in csr_writes
              /\ kernel_locals.alias_ok]_vars

\* The guard page is not mapped and a store to it raises PIS with BADV the
\* guard page.
GuardPageUnmapped ==
    IsMappedAddressTranslationMode => ~TranslateProgrammed(GuardPage).ok

StoreToGuardPageFaults ==
    KernelStore(GuardPage) =>
        /\ trap_cpu'.mode = "stub_entry"
        /\ ExceptionCodeFromExceptionStatus(trap_csr'.estat) = kExceptionCodePis
        /\ trap_csr'.badv = GuardPage
        /\ trap_csr'.era = StoreSite

\* Every stack page translates to a page the PMM allocated, no two of them to
\* the same page.
StackPagesMapped ==
    /\ \A page \in StackPages :
           /\ TranslateProgrammed(page).ok
           /\ \E p \in allocated : TranslateProgrammed(page).value = ToBits(p)
    /\ \A p1, p2 \in StackPages :
           TranslateProgrammed(p1).value = TranslateProgrammed(p2).value => p1 = p2

TrapFrameCode == ExceptionCodeFromExceptionStatus(trap_frame.exception_status)

TrapFrameSubCode == ExceptionSubCodeFromExceptionStatus(trap_frame.exception_status)

TrapFrameInterruptStatus == InterruptStatusFromExceptionStatus(trap_frame.exception_status)

HandlerDecides == trap_cpu.mode = "handler" /\ trap_cpu'.mode # "handler"

HandlerReturns == trap_cpu.mode # "program" /\ trap_cpu'.mode = "program"

IsTimerInterrupt == TrapFrameCode = {} /\ TimerInterruptLine \in TrapFrameInterruptStatus

IsBreak == TrapFrameCode = ToBits(12)

IsArmedExpectedTrap ==
    /\ trap_test.build = "tests"
    /\ trap_test.g_expected_trap_armed
    /\ TrapFrameCode = trap_test.g_expected_exception_code
    /\ \/ trap_test.g_expected_exception_subcode = AllBits
       \/ TrapFrameSubCode = trap_test.g_expected_exception_subcode

\* C23: a BREAK exception makes the handler advance the frame's
\* exception_return_address by exactly 4 and return, so that execution resumes
\* at the instruction after the break; in the test build the break counter
\* equals the number of BREAK traps since ResetTrapObservations.
C23_BreakSkipsAndCounts ==
    /\ [](trap_cpu.mode = "program" /\ trap_test.build = "tests" =>
              trap_test.g_break_trap_count = ToBits(trap_hist.breaks_since_reset))
    /\ [][/\ HandlerDecides /\ IsBreak =>
                 /\ trap_cpu'.mode = "stub_return"
                 /\ trap_frame'.exception_return_address =
                        Plus(trap_frame.exception_return_address, ToBits(4))
          /\ HandlerReturns /\ IsBreak =>
                 trap_cpu'.pc = Plus(trap_cpu.pc, ToBits(4))]_vars

C23_Witness ==
    /\ trap_cpu.mode = "program"
    /\ trap_test.build = "tests"
    /\ trap_test.g_break_trap_count = ToBits(2)
    /\ trap_hist.returned = 2
    /\ trap_cpu.pc = {}

\* C24: the handler returns to the interrupted code only for a timer
\* interrupt, a BREAK or (test build) an armed expected trap that matches,
\* which it disarms; for every other event it halts, leaves the frame's
\* return address alone and never returns.
C24_ReturnsOnlyWhenHandled ==
    [][/\ HandlerDecides =>
              /\ trap_cpu'.mode \in {"stub_return", "handler_stop_timer"}
                     <=> (IsTimerInterrupt \/ IsBreak \/ IsArmedExpectedTrap)
              /\ trap_cpu'.mode \notin {"stub_return", "handler_stop_timer"} =>
                     /\ trap_cpu'.mode = "halted"
                     /\ trap_frame'.exception_return_address =
                            trap_frame.exception_return_address
              /\ (IsArmedExpectedTrap /\ ~IsTimerInterrupt /\ ~IsBreak) =>
                     /\ ~trap_test'.g_expected_trap_armed
                     /\ trap_test'.g_expected_trap_observed
       /\ trap_cpu.mode = "halted" =>
              /\ trap_cpu'.mode = "halted"
              /\ trap_frame' = trap_frame
       /\ HandlerReturns => (IsTimerInterrupt \/ IsBreak \/ trap_cpu.event = "expected")]_vars

C24_Witness ==
    /\ trap_cpu.mode = "halted"
    /\ trap_test.g_expected_trap_observed
    /\ ~trap_test.g_expected_trap_armed
    /\ trap_hist.returned = 1
    /\ TrapFrameCode = trap_test.g_observed_exception_code


TimerLineUnmasked == TimerInterruptLine \in trap_csr.ecfg

InterruptsEnabled == crmd \cap {2} # {}

TimerPending == TimerInterruptLine \in trap_csr.estat

TimerHandlerInvoked == trap_cpu.mode = "handler" /\ IsTimerInterrupt

\* C25: once the timer was started with the timer line unmasked and CRMD.IE
\* set, the handler is eventually invoked with exception code 0 and IS bit 11
\* (unless the program masks the line or clears IE first, or the CPU sits in
\* halt()); after the handler the timer is stopped and not pending, and the
\* handler is invoked for the timer at most once per StartOneShotTimerTicks.
C25_TimerDeliveredOnce ==
    /\ []((trap_hist.timer_started /\ TimerLineUnmasked /\ InterruptsEnabled) =>
              <>(\/ TimerHandlerInvoked
                 \/ trap_cpu.mode = "program" /\ ~(TimerLineUnmasked /\ InterruptsEnabled)
                 \/ trap_cpu.mode = "halted"))
    /\ [](~trap_hist.timer_started => ~trap_csr.timer_running /\ ~TimerPending)
    /\ [](trap_hist.timer_traps <= trap_hist.timer_starts)
    /\ [][trap_cpu.mode = "handler_stop_timer" /\ trap_cpu'.mode = "stub_return" =>
              /\ ~trap_csr'.timer_running
              /\ ~TimerPending'
              /\ ~trap_hist'.timer_started]_vars

C25_Witness ==
    /\ trap_cpu.mode = "program"
    /\ trap_cpu.event = "timer"
    /\ trap_hist.timer_traps = 1
    /\ trap_hist.returned >= 1
    /\ TimerLineUnmasked
    /\ InterruptsEnabled
    /\ ~trap_csr.timer_running
    /\ ~TimerPending
    /\ trap_test.g_timer_interrupt_observed

\* C26: while a handler invocation is in progress (from exception entry until
\* ERTN, or for ever in halt()) CRMD.IE is 0, so that no interrupt is taken,
\* pending or not: the handler is never invoked inside an invocation.
C26_NotReentrant ==
    /\ trap_cpu.mode = "program" => trap_hist.depth = 0
    /\ trap_cpu.mode # "program" =>
           /\ ~InterruptsEnabled
           /\ ~InterruptPending
           /\ trap_hist.depth = 1

C26_Witness ==
    /\ trap_cpu.mode = "handler"
    /\ IsBreak
    /\ trap_csr.prmd_pie
    /\ TimerPending
    /\ TimerLineUnmasked


\* ========================================================================
\* Properties of CPUCFG
\* ========================================================================
\* C27: between two ResetCache invocations (and before the first) every word
\* number is read from the backend at most once, however often it is queried.
C27_AtMostOneBackendRead ==
    \A word_number \in DOMAIN cpucfg_hist.reads : cpucfg_hist.reads[word_number] <= 1

\* The same for the word numbers that have a slot, with the read count being
\* the number of words read since the last ResetCache.
CachedWordsReadOnce ==
    /\ \A word_number \in DOMAIN cpucfg.slots :
           /\ cpucfg_hist.reads[word_number] <= 1
           /\ cpucfg_hist.reads[word_number] = 1 <=> cpucfg.slots[word_number] # <<>>
    /\ cpucfg.backend_read_count >= Cardinality({ word_number \in DOMAIN cpucfg.slots :
                                                     cpucfg.slots[word_number] # <<>> })

Word1LowBits == NatOfBits(cpucfg.backend[1] \cap (0 .. 19))

\* C28: whatever word 0x1 holds, Arch() is its bits [1:0], PhysicalAddressBits()
\* its bits [11:4] plus 1 and VirtualAddressBits() its bits [19:12] plus 1.
C28_Word1Decoding ==
    /\ cpucfg_hist.last.op = "Arch" => cpucfg_hist.last.value = Word1LowBits % 4
    /\ cpucfg_hist.last.op = "PhysicalAddressBits" =>
           cpucfg_hist.last.value = ((Word1LowBits \div 16) % 256) + 1
    /\ cpucfg_hist.last.op = "VirtualAddressBits" =>
           cpucfg_hist.last.value = ((Word1LowBits \div 4096) % 256) + 1

C28_Witness ==
    /\ cpucfg_hist.last.op = "PhysicalAddressBits"
    /\ cpucfg_hist.last.value = 48
    /\ cpucfg.backend[1] = ToBits(2) \cup ShiftLeft(ToBits(47), 4) \cup ShiftLeft(ToBits(255), 12)
                               \cup {2, 3} \cup (20 .. 31)
    /\ cpucfg.backend_read_count = 1


\* ========================================================================
\* Properties of BootMemoryMap::AddRegion
\* ========================================================================
RegionEnd(r) == r.physical_base + r.size_bytes

\* C29: the map never holds two regions of the same type of which one ends
\* where the other begins.
C29_NoAdjacentSameType ==
    \A i \in 1 .. Len(region_map) : \A j \in 1 .. Len(region_map) :
        (i # j /\ region_map[i].type = region_map[j].type) =>
            RegionEnd(region_map[i]) # region_map[j].physical_base

\* C30: every stored region has a non-zero size and an end that does not
\* wrap, the map holds at most 64 regions, and an AddRegion that returns
\* false (zero size, wrapping range or no capacity left) leaves the map as
\* it was.
C30_StoredRegionsValid ==
    /\ Len(region_map) <= 64
    /\ \A i \in 1 .. Len(region_map) :
           /\ region_map[i].size_bytes # 0
           /\ ~ULt(RegionEnd(region_map[i]), region_map[i].physical_base)
    /\ (region_map_hist.op = "AddRegion" /\ ~region_map_hist.ok) =>
           /\ region_map = region_map_hist.before
           /\ \/ region_map_hist.region.size_bytes = 0
              \/ ULt(RegionEnd(region_map_hist.region), region_map_hist.region.physical_base)
              \/ Len(region_map_hist.before) = 64

C30_Witness ==
    /\ region_map_hist.op = "AddRegion"
    /\ ~region_map_hist.ok
    /\ Len(region_map) = 64
    /\ region_map_hist.region.size_bytes # 0
    /\ ~ULt(RegionEnd(region_map_hist.region), region_map_hist.region.physical_base)
    /\ region_map_hist.calls = 3


\* C31: after a TryParseFromDeviceTree that returned false the map is empty
\* (region_count = 0), whatever the parser had accepted before the error.
C31_NoPartialMap ==
    (region_map_hist.op = "TryParseFromDeviceTree" /\ ~region_map_hist.ok) =>
        Len(region_map) = 0

\* The FREE pages of the tracked range, by page index.
FreePageIndices == { i \in 0 .. (m_page_count - 1) : ~IsPageUsed(bitmap, i) }

\* How many steps a scan starting at `from` takes to reach `to`.
CyclicDistance(from, to) == (to - from + m_page_count) % m_page_count

FirstFreeInCyclicOrder ==
    CHOOSE i \in FreePageIndices :
        \A j \in FreePageIndices :
            CyclicDistance(m_next_search_index, i) <= CyclicDistance(m_next_search_index, j)

\* C32: AllocatePage returns empty exactly when the PMM is uninitialized or
\* has no FREE page; otherwise it returns the first FREE page in cyclic order
\* from next_search_index, flips exactly that bit to USED, takes one off the
\* free count and leaves next_search_index at (index + 1) mod page_count.
C32_AllocatePageContract ==
    [][last'.op = "AllocatePage" =>
          /\ ~last'.ok <=> (~m_initialized \/ FreePageIndices = {})
          /\ ~last'.ok => UNCHANGED pmmVars
          /\ last'.ok =>
                /\ last'.value = PageIndexToPhysical(m_tracked_physical_base,
                                                     FirstFreeInCyclicOrder)
                /\ bitmap' = bitmap \ {FirstFreeInCyclicOrder}
                /\ m_free_page_count' = m_free_page_count - 1
                /\ m_next_search_index' = (FirstFreeInCyclicOrder + 1) % m_page_count]_vars

\* An allocation after a FreePage moved the search index back, with other
\* pages still FREE behind the one handed out.
C32_Witness ==
    /\ last.op = "AllocatePage"
    /\ last.ok
    /\ n_free >= 1
    /\ n_alloc >= 2
    /\ FreePageIndices # {}

\* [a_base, a_base + a_size) and [b_base, b_base + b_size), neither wrapping,
\* have a byte in common.
Intersects(a_base, a_size, b_base, b_size) ==
    /\ a_size # 0
    /\ b_size # 0
    /\ ULt(a_base, b_base + b_size)
    /\ ULt(b_base, a_base + a_size)

BitmapInside(r) ==
    /\ r.type = Usable
    /\ ~AddOverflows(r.physical_base, r.size_bytes)
    /\ ~AddOverflows(m_bitmap_physical_base, m_bitmap_size_bytes)
    /\ ULe(r.physical_base, m_bitmap_physical_base)
    /\ ULe(m_bitmap_physical_base + m_bitmap_size_bytes, r.physical_base + r.size_bytes)

\* C33: after a successful initialization the bitmap storage is 16-byte
\* aligned, ceil(page_count / 8) bytes rounded up to a multiple of 16 long,
\* inside one UsableRAM region, and overlaps neither the kernel image nor
\* the device tree blob.
C33_BitmapPlacement ==
    m_initialized =>
        /\ m_bitmap_physical_base % 16 = 0
        /\ m_bitmap_size_bytes % 16 = 0
        /\ m_bitmap_size_bytes >= (m_page_count + 7) \div 8
        /\ m_bitmap_size_bytes < ((m_page_count + 7) \div 8) + 16
        /\ \E i \in 1 .. Len(init_in.map) : BitmapInside(init_in.map[i])
        /\ UGt(init_in.kernel_physical_end, init_in.kernel_physical_base) =>
               ~Intersects(m_bitmap_physical_base, m_bitmap_size_bytes,
                           init_in.kernel_physical_base,
                           init_in.kernel_physical_end - init_in.kernel_physical_base)
        /\ ~Intersects(m_bitmap_physical_base, m_bitmap_size_bytes,
                       init_in.device_tree_physical_base, init_in.device_tree_size_bytes)

\* An initialization that moved the bitmap past the device tree blob at the
\* start of the region.
C33_Witness ==
    /\ m_initialized
    /\ init_in.device_tree_size_bytes # 0
    /\ Intersects(init_in.map[1].physical_base, m_bitmap_size_bytes,
                  init_in.device_tree_physical_base, init_in.device_tree_size_bytes)
    /\ m_bitmap_physical_base =
           AlignUp(init_in.device_tree_physical_base + init_in.device_tree_size_bytes, 16)

\* C34: after a successful initialization the bitmap storage overlaps no
\* Reserved region of the boot memory map.
C34_BitmapAvoidsReserved ==
    m_initialized =>
        \A i \in 1 .. Len(init_in.map) :
            init_in.map[i].type = Reserved =>
                ~Intersects(m_bitmap_physical_base, m_bitmap_size_bytes,
                            init_in.map[i].physical_base, init_in.map[i].size_bytes)

\* The path of a page through the tables: the entry index at every level.
LeafSlot(virtual_address) ==
    [level \in 0 .. (LayoutNow.level_count - 1) |->
        IndexFromVirtualAddressAtLevel(virtual_address, level)]

SamePage(va, other) == va \cap kPageBaseMask = other \cap kPageBaseMask

CanonicalNow(virtual_address) == Valen = 64 \/ IsCanonical(virtual_address, Valen)

IsolationTranslateInputs ==
    { va \cup off : va \in IsolationVirtualInputs, off \in OffsetInputs }

\* C35: mapping isolation.  A successful MapPage4KiB or UnmapPage4KiB of one
\* canonical page never changes what Translate returns for a canonical
\* address in another page, and two distinct canonical pages never have the
\* same path of table indices (lower half, higher half, or one of each).
C35_MappingIsolation ==
    /\ [][((MapStep \/ UnmapStep) /\ last_paging'.ok) =>
             \A other \in IsolationTranslateInputs :
                 (CanonicalNow(other) /\ ~SamePage(other, last_paging'.virtual_address)) =>
                     TranslateNext(other) = TranslateNow(other)]_vars
    /\ [](LayoutNow.ok =>
             \A va \in IsolationVirtualInputs, other \in IsolationVirtualInputs :
                 (CanonicalNow(va) /\ CanonicalNow(other) /\ va # other) =>
                     LeafSlot(va) # LeafSlot(other))

\* Two pages are mapped, one in each half, and the last call unmapped a third
\* or mapped the second.
C35_Witness ==
    /\ n_map = 2
    /\ last_paging.op \in {"MapPage4KiB", "UnmapPage4KiB"}
    /\ last_paging.ok
    /\ \E other \in IsolationVirtualInputs :
           /\ ~SamePage(other, last_paging.virtual_address)
           /\ (63 \in other) # (63 \in last_paging.virtual_address)
           /\ TranslateNow(other).ok

\* The bits [high:low] of a CSR value, as a number.
CsrField(word, high, low) == NatOfBits(ShiftRight(word \cap (low .. high), low))

WalkerValen == walker.address_bits.virtual_address_bits

\* The index bits left for level i (0 the lowest) when every level below it
\* took nine, and the width that level takes of them.
WalkerBitsLeft(i) == (WalkerValen - 12) - 9 * i

ExpectedWidth(i) ==
    IF WalkerBitsLeft(i) <= 0 THEN 0
    ELSE IF WalkerBitsLeft(i) >= 9 THEN 9 ELSE WalkerBitsLeft(i)

ExpectedBase(i) == IF ExpectedWidth(i) = 0 THEN 0 ELSE 12 + 9 * i

\* C36: for 13 <= VALEN <= 57 Make4KiBPageWalkerConfig splits VALEN - 12 into
\* at most five levels of at most nine bits, lowest level first, each level
\* starting where the one below ends (the lowest at bit 12), and packs them
\* as PWCL = PTbase[4:0], PTwidth[9:5], Dir1_base[14:10], Dir1_width[19:15],
\* Dir2_base[24:20], Dir2_width[29:25], PTEWidth[31:30] = 0 and
\* PWCH = Dir3_base[5:0], Dir3_width[11:6], Dir4_base[17:12],
\* Dir4_width[23:18], all other bits zero and no field cut by its mask; for
\* VALEN <= 12 or VALEN > 57 it returns empty.
C36_WalkerConfigFields ==
    walker.op # "none" =>
        /\ walker.config.ok <=> WalkerValen \in 13 .. 57
        /\ walker.config.ok =>
              /\ ExpectedWidth(0) + ExpectedWidth(1) + ExpectedWidth(2)
                     + ExpectedWidth(3) + ExpectedWidth(4) = WalkerValen - 12
              /\ CsrField(walker.config.pwcl, 4, 0) = 12
              /\ CsrField(walker.config.pwcl, 9, 5) = ExpectedWidth(0)
              /\ CsrField(walker.config.pwcl, 14, 10) = ExpectedBase(1)
              /\ CsrField(walker.config.pwcl, 19, 15) = ExpectedWidth(1)
              /\ CsrField(walker.config.pwcl, 24, 20) = ExpectedBase(2)
              /\ CsrField(walker.config.pwcl, 29, 25) = ExpectedWidth(2)
              /\ walker.config.pwcl \subseteq 0 .. 29
              /\ CsrField(walker.config.pwch, 5, 0) = ExpectedBase(3)
              /\ CsrField(walker.config.pwch, 11, 6) = ExpectedWidth(3)
              /\ CsrField(walker.config.pwch, 17, 12) = ExpectedBase(4)
              /\ CsrField(walker.config.pwch, 23, 18) = ExpectedWidth(4)
              /\ walker.config.pwch \subseteq 0 .. 23

\* A configuration of five levels whose highest level is narrower than nine
\* bits (VALEN 50: Dir4 starts at bit 48 and is two bits wide).
C36_Witness ==
    /\ walker.op # "none"
    /\ WalkerValen = 50
    /\ walker.config.ok
    /\ CsrField(walker.config.pwch, 17, 12) = 48
    /\ CsrField(walker.config.pwch, 23, 18) = 2

\* C37: EnablePaging performs exactly one write of CSR.CRMD, of a value with
\* PG (bit 4) set, DA (bit 3) clear and every other bit as read immediately
\* before; CRMD never holds a value with both bits or with neither.
C37_EnablePagingOneWrite ==
    /\ (crmd \cap kPagingEnable # {}) # (crmd \cap kDirectAddressingEnable # {})
    /\ last_paging.op = "EnablePaging" =>
          /\ Len(last_paging.writes) = 1
          /\ \A i \in 1 .. Len(last_paging.writes) :
                /\ 4 \in last_paging.writes[i]
                /\ 3 \notin last_paging.writes[i]
                /\ last_paging.writes[i] \ {3, 4} = last_paging.read \ {3, 4}
          /\ crmd = (last_paging.read \ {3}) \cup {4}

\* EnablePaging ran in direct-address mode with interrupts enabled and the
\* DATF / DATM fields set; those bits are still set.
C37_Witness ==
    /\ last_paging.op = "EnablePaging"
    /\ 3 \in last_paging.read
    /\ {2, 5, 7} \subseteq last_paging.read
    /\ {2, 5, 7} \subseteq crmd
    /\ 4 \in crmd

LayoutValen == layout_call.virtual_address_bits

\* The canonical addresses of the higher half for VALEN N contain bits
\* N - 1 .. 63; the smallest has no other bit.
SmallestCanonicalHighHalf(N) == (N - 1) .. 63

\* C38 as stated: for 0 < N < 64, CanonicalHighHalfBase(N) is the smallest
\* canonical higher-half address, PhysMapBase(N) = CanonicalHighHalfBase(N) +
\* 0x40000000 (wrapping) is a canonical higher-half address for N, and
\* FromPhysMapVirtual(ToPhysMapVirtual(pa, N), N) = pa for every pa.
C38_LayoutAddresses ==
    (layout_call.op = "ToPhysMapVirtual" /\ LayoutValen \in 1 .. 63) =>
        /\ layout_call.canonical_high_half_base = SmallestCanonicalHighHalf(LayoutValen)
        /\ IsCanonical(layout_call.physmap_base, LayoutValen)
        /\ (LayoutValen - 1) \in layout_call.physmap_base
        /\ layout_call.back = layout_call.physical_address

\* C38, amended: for 0 < N < 64, CanonicalHighHalfBase(N) is the smallest
\* canonical higher-half address and FromPhysMapVirtual(ToPhysMapVirtual(pa,
\* N), N) = pa for every pa; PhysMapBase(N) is a canonical higher-half address
\* for 32 <= N < 64 (below that the 1 GiB offset carries out of the sign
\* extension).
C38_LayoutAddressesFrom32 ==
    (layout_call.op = "ToPhysMapVirtual" /\ LayoutValen \in 1 .. 63) =>
        /\ layout_call.canonical_high_half_base = SmallestCanonicalHighHalf(LayoutValen)
        /\ layout_call.back = layout_call.physical_address
        /\ LayoutValen >= 32 =>
              /\ IsCanonical(layout_call.physmap_base, LayoutValen)
              /\ (LayoutValen - 1) \in layout_call.physmap_base

C38_Witness ==
    /\ layout_call.op = "ToPhysMapVirtual"
    /\ LayoutValen = 48
    /\ layout_call.physical_address = 12 .. 47
    /\ layout_call.physmap_base = {30} \cup (47 .. 63)
    /\ layout_call.virtual_address # layout_call.physical_address
    /\ layout_call.back = layout_call.physical_address

\* The blocks met from a header on, following the sizes in the headers, up
\* to g_heap_end or to the first size that is zero or leaves the region.
RECURSIVE BlocksFrom(_, _)
BlocksFrom(header, fuel) ==
    IF fuel = 0 \/ ~InHeap(heap, header) \/ BlockSize(heap, header) = 0
       \/ UGt(header + BlockSize(heap, header), heap.g_heap_end)
    THEN <<>>
    ELSE <<header>> \o BlocksFrom(header + BlockSize(heap, header), fuel - 1)

HeapBlocks == BlocksFrom(heap.g_heap_begin, HeapWordCount(heap))

BlockEnd(header) == header + BlockSize(heap, header)

BlocksTile ==
    /\ HeapBlocks # <<>>
    /\ BlockEnd(HeapBlocks[Len(HeapBlocks)]) = heap.g_heap_end

\* The nodes of the free list in list order, as far as it can be followed.
RECURSIVE FreeNodesFrom(_, _)
FreeNodesFrom(node, fuel) ==
    IF node = 0 \/ fuel = 0 \/ ~InHeap(heap, node) THEN <<>>
    ELSE <<node>> \o FreeNodesFrom(ReadWord(heap, node), fuel - 1)

FreeNodes == FreeNodesFrom(heap.g_free_list_head, HeapWordCount(heap))

SeqRange(seq) == {seq[i] : i \in DOMAIN seq}

FreeBlocks == {header \in SeqRange(HeapBlocks) : ~IsUsed(heap, header)}

PayloadEnd(allocation) == allocation.ptr + allocation.size

\* [a_begin, a_end) and [b_begin, b_end) share a byte (no range wraps).
BytesOverlap(a_begin, a_end, b_begin, b_end) ==
    /\ ULt(a_begin, a_end)
    /\ ULt(b_begin, b_end)
    /\ ULt(a_begin, b_end)
    /\ ULt(b_begin, a_end)

AlignmentOf(allocation) ==
    IF ULt(allocation.alignment, kHeapAlign) THEN kHeapAlign ELSE allocation.alignment

\* C39: every pointer Alloc returned and Free has not taken back is aligned
\* to max(alignment, 16); its payload of `size` bytes lies inside
\* [heap_begin, heap_end), overlaps no other live allocation and no header
\* or footer of a block (so a size that cannot be served, near SIZE_MAX
\* included, gets nullptr).
C39_AllocSafety ==
    \A allocation \in heap_hist.live :
        /\ allocation.ptr % AlignmentOf(allocation) = 0
        /\ ~AddOverflows(allocation.ptr, allocation.size)
        /\ UGe(allocation.ptr, heap.g_heap_begin)
        /\ ULe(PayloadEnd(allocation), heap.g_heap_end)
        /\ \A other \in heap_hist.live \ {allocation} :
               ~BytesOverlap(allocation.ptr, PayloadEnd(allocation),
                             other.ptr, PayloadEnd(other))
        /\ \A header \in SeqRange(HeapBlocks) :
               /\ ~BytesOverlap(allocation.ptr, PayloadEnd(allocation),
                                header, header + HeaderSize)
               /\ ~BytesOverlap(allocation.ptr, PayloadEnd(allocation),
                                BlockEnd(header) - FooterSize, BlockEnd(header))

\* C40: once Init has succeeded the blocks tile [heap_begin, heap_end), each
\* header equals its footer, the free list holds exactly the free blocks,
\* each once, no two neighbouring blocks are both free, and with no live
\* allocation FreeBytes() = TotalBytes().
C40_BlockInvariant ==
    heap.g_initialized =>
        /\ ~heap.wild
        /\ BlocksTile
        /\ \A header \in SeqRange(HeapBlocks) :
               ReadWord(heap, header) = ReadWord(heap, BlockEnd(header) - FooterSize)
        /\ SeqRange(FreeNodes) = {NodeFor(header) : header \in FreeBlocks}
        /\ Len(FreeNodes) = Cardinality(FreeBlocks)
        /\ \A i \in 1 .. (Len(HeapBlocks) - 1) :
               IsUsed(heap, HeapBlocks[i]) \/ IsUsed(heap, HeapBlocks[i + 1])
        /\ heap_hist.live = {} =>
               FreeBytes(heap) = [end |-> "returns", total |-> TotalBytes(heap)]

====
